---- MODULE Spec2Model ----
(***************************************************************************)
(* Verification model of crosspoint-reader's text reflow core:             *)
(*   - the Hyphenator facade, the English and Russian rule engines and the *)
(*     legacy Hyphenator::splitWord,                                       *)
(*   - ParsedText::layoutAndExtractLines (pre-split, minimal-raggedness    *)
(*     DP, hyphenation loop, line extraction).                             *)
(* A word is its UTF-8 byte sequence (naturals 1..255).  Indexes and byte  *)
(* offsets are 0-based as in the C++ source; TLA+ sequences are 1-based,   *)
(* so element i of a vector v is v[i + 1].                                 *)
(***************************************************************************)
EXTENDS Integers, Sequences, FiniteSets, TLC

\* ------------------------------------------------------------------------
\* Generic helpers
\* ------------------------------------------------------------------------
Range(s) == {s[i] : i \in 1..Len(s)}

Min2(a, b) == IF a <= b THEN a ELSE b

RECURSIVE SetToSortedSeq(_)
SetToSortedSeq(S) ==
  IF S = {} THEN <<>>
  ELSE LET m == CHOOSE x \in S : \A y \in S : x <= y
       IN <<m>> \o SetToSortedSeq(S \ {m})

\* std::sort followed by erase(std::unique(...)): ascending, duplicates removed.
SortUnique(s) == SetToSortedSeq(Range(s))

RECURSIVE SumSeq(_)
SumSeq(s) == IF s = <<>> THEN 0 ELSE s[1] + SumSeq(Tail(s))

\* The concatenation of ss[lo], ..., ss[hi] (evaluated by halves).
RECURSIVE FlattenRange(_, _, _)
FlattenRange(ss, lo, hi) ==
  IF hi < lo THEN <<>>
  ELSE IF lo = hi THEN ss[lo]
  ELSE FlattenRange(ss, lo, lo + ((hi - lo) \div 2))
       \o FlattenRange(ss, lo + ((hi - lo) \div 2) + 1, hi)

Flatten(ss) == FlattenRange(ss, 1, Len(ss))

\* std::string::substr(pos) and substr(0, n) on a byte sequence.
SubstrFrom(w, pos) == SubSeq(w, pos + 1, Len(w))
SubstrTo(w, n) == SubSeq(w, 1, Min2(n, Len(w)))

\* ------------------------------------------------------------------------
\* UTF-8
\* ------------------------------------------------------------------------
\* Encoding of one scalar value (used to write the input words).
utf8Encode(cp) ==
  IF cp < 128 THEN <<cp>>
  ELSE IF cp < 2048 THEN <<192 + (cp \div 64), 128 + (cp % 64)>>
  ELSE <<224 + (cp \div 4096), 128 + ((cp \div 64) % 64), 128 + (cp % 64)>>

RECURSIVE utf8EncodeAll(_)
utf8EncodeAll(cs) == IF cs = <<>> THEN <<>> ELSE utf8Encode(cs[1]) \o utf8EncodeAll(Tail(cs))

\* Number of bytes the decoder consumes for a lead byte; a malformed lead
\* byte (or a sequence cut short by the end of the string) is one byte.
utf8SeqLen(w, pos) ==
  LET b == w[pos + 1]
      n == IF b < 128 THEN 1
           ELSE IF b >= 192 /\ b < 224 THEN 2
           ELSE IF b >= 224 /\ b < 240 THEN 3
           ELSE IF b >= 240 /\ b < 248 THEN 4
           ELSE 1
  IN IF pos + n > Len(w) THEN 1 ELSE n

\* utf8NextCodepoint: the scalar value decoded at byte offset pos.
utf8NextCodepoint(w, pos) ==
  LET n == utf8SeqLen(w, pos)
      b == w[pos + 1]
  IN IF n = 1 THEN b
     ELSE IF n = 2 THEN (b % 32) * 64 + (w[pos + 2] % 64)
     ELSE IF n = 3 THEN (b % 16) * 4096 + (w[pos + 2] % 64) * 64 + (w[pos + 3] % 64)
     ELSE (b % 8) * 262144 + (w[pos + 2] % 64) * 4096 + (w[pos + 3] % 64) * 64 + (w[pos + 4] % 64)

RECURSIVE collectCodepointsFrom(_, _)
collectCodepointsFrom(w, pos) ==
  IF pos >= Len(w) THEN <<>>
  ELSE <<[value |-> utf8NextCodepoint(w, pos), byteOffset |-> pos]>>
         \o collectCodepointsFrom(w, pos + utf8SeqLen(w, pos))

\* Converts the UTF-8 word into codepoint metadata for downstream rules.
collectCodepoints(w) == collectCodepointsFrom(w, 0)

\* cps[i].value with the source's 0-based index.
CpAt(cps, i) == cps[i + 1].value

\* ------------------------------------------------------------------------
\* HyphenationCommon
\* ------------------------------------------------------------------------
MIN_PREFIX_CP == 2
MIN_SUFFIX_CP == 2

toLowerLatin(cp) == IF cp >= 65 /\ cp <= 90 THEN cp - 65 + 97 ELSE cp

toLowerCyrillic(cp) ==
  IF cp >= 1040 /\ cp <= 1071 THEN cp + 32      \* 0x0410..0x042F
  ELSE IF cp = 1025 THEN 1105                   \* 0x0401 -> 0x0451
  ELSE cp

isLatinLetter(cp) == (cp >= 65 /\ cp <= 90) \/ (cp >= 97 /\ cp <= 122)

\* a e i o u y
isLatinVowel(cp) == toLowerLatin(cp) \in {97, 101, 105, 111, 117, 121}

isLatinConsonant(cp) == isLatinLetter(cp) /\ ~isLatinVowel(cp)

isCyrillicLetter(cp) == cp >= 1024 /\ cp <= 1327   \* 0x0400..0x052F

\* а е ё и о у ы э ю я
isCyrillicVowel(cp) ==
  toLowerCyrillic(cp) \in {1072, 1077, 1105, 1080, 1086, 1091, 1099, 1101, 1102, 1103}

isCyrillicConsonant(cp) == isCyrillicLetter(cp) /\ ~isCyrillicVowel(cp)

isAlphabetic(cp) == isLatinLetter(cp) \/ isCyrillicLetter(cp)

\* . , ! ? ; : " ' ) ( « » ‘ ’ “ ” [ ] { } / › …
isPunctuation(cp) ==
  cp \in {46, 44, 33, 63, 59, 58, 34, 39, 41, 40, 171, 187, 8216, 8217, 8220, 8221,
          91, 93, 123, 125, 47, 8250, 8230}

RECURSIVE trimFront(_)
trimFront(cps) ==
  IF cps # <<>> /\ isPunctuation(cps[1].value) THEN trimFront(Tail(cps)) ELSE cps

RECURSIVE trimBack(_)
trimBack(cps) ==
  IF cps # <<>> /\ isPunctuation(cps[Len(cps)].value)
  THEN trimBack(SubSeq(cps, 1, Len(cps) - 1)) ELSE cps

trimSurroundingPunctuation(cps) == trimBack(trimFront(cps))

detectScript(cps) ==
  LET hasLatin == \E i \in 1..Len(cps) : isLatinLetter(cps[i].value)
      hasCyrillic == \E i \in 1..Len(cps) :
                       ~isLatinLetter(cps[i].value) /\ isCyrillicLetter(cps[i].value)
  IN IF hasLatin /\ ~hasCyrillic THEN "Latin"
     ELSE IF ~hasLatin /\ hasCyrillic THEN "Cyrillic"
     ELSE "Mixed"

\* ------------------------------------------------------------------------
\* EnglishHyphenator
\* ------------------------------------------------------------------------
\* 0 for a non-Latin codepoint, else the lower-case letter.
lowerLatinChar(cp) == IF ~isLatinLetter(cp) THEN 0 ELSE toLowerLatin(cp)

\* l r w y
isEnglishApproximantChar(c) == c \in {108, 114, 119, 121}
\* p b t d k g c q
isEnglishStopChar(c) == c \in {112, 98, 116, 100, 107, 103, 99, 113}
\* f v s z h x
isEnglishFricativeChar(c) == c \in {102, 118, 115, 122, 104, 120}

lowercaseLatinWord(cps) == [i \in 1..Len(cps) |-> lowerLatinChar(cps[i].value)]

\* Letters of an ASCII literal, as codepoints.
AsciiLetters == <<"a", "b", "c", "d", "e", "f", "g", "h", "i", "j", "k", "l", "m",
                  "n", "o", "p", "q", "r", "s", "t", "u", "v", "w", "x", "y", "z">>
Ch(c) == 96 + (CHOOSE i \in 1..26 : AsciiLetters[i] = c)
Lit(cs) == [i \in 1..Len(cs) |-> Ch(cs[i])]

matchesPatternAt(lowerWord, start, pattern) ==
  /\ Len(pattern) # 0
  /\ start + Len(pattern) <= Len(lowerWord)
  /\ \A i \in 0..(Len(pattern) - 1) : lowerWord[start + i + 1] = pattern[i + 1]

englishSegmentHasVowel(cps, start, end) ==
  /\ start < end
  /\ start < Len(cps)
  /\ \E i \in start..(Min2(end, Len(cps)) - 1) : isLatinVowel(CpAt(cps, i))

\* Avoids creating hyphen positions adjacent to apostrophes.
nextToApostrophe(cps, index) ==
  IF index = 0 \/ index >= Len(cps) THEN FALSE
  ELSE CpAt(cps, index - 1) = 39 \/ CpAt(cps, index) = 39

ENGLISH_PREFIXES ==
  << Lit(<<"a","n","t","i">>), Lit(<<"a","u","t","o">>), Lit(<<"c","o","u","n","t","e","r">>),
     Lit(<<"d","e">>), Lit(<<"d","i","s">>), Lit(<<"h","y","p","e","r">>),
     Lit(<<"i","n","t","e","r">>), Lit(<<"m","i","c","r","o">>), Lit(<<"m","i","s">>),
     Lit(<<"m","o","n","o">>), Lit(<<"m","u","l","t","i">>), Lit(<<"n","o","n">>),
     Lit(<<"o","v","e","r">>), Lit(<<"p","o","s","t">>), Lit(<<"p","r","e">>),
     Lit(<<"p","r","o">>), Lit(<<"r","e">>), Lit(<<"s","u","b">>),
     Lit(<<"s","u","p","e","r">>), Lit(<<"t","r","a","n","s">>) >>

ENGLISH_SUFFIXES ==
  << Lit(<<"a","b","l","e">>), Lit(<<"i","b","l","e">>), Lit(<<"i","n","g">>),
     Lit(<<"i","n","g","s">>), Lit(<<"e","d">>), Lit(<<"e","r">>), Lit(<<"e","r","s">>),
     Lit(<<"e","s","t">>), Lit(<<"f","u","l">>), Lit(<<"h","o","o","d">>),
     Lit(<<"l","e","s","s">>), Lit(<<"l","e","s","s","l","y">>), Lit(<<"l","y">>),
     Lit(<<"m","e","n","t">>), Lit(<<"m","e","n","t","s">>), Lit(<<"n","e","s","s">>),
     Lit(<<"o","u","s">>), Lit(<<"t","i","o","n">>), Lit(<<"s","i","o","n">>),
     Lit(<<"w","a","r","d">>), Lit(<<"w","a","r","d","s">>), Lit(<<"s","h","i","p">>),
     Lit(<<"s","h","i","p","s">>), Lit(<<"y">>) >>

\* tryPush of appendMorphologyBreaks: TRUE when breakIndex is pushed.
englishTryPush(cps, breakIndex) ==
  LET length == Len(cps)
  IN /\ ~(breakIndex < MIN_PREFIX_CP \/ length - breakIndex < MIN_SUFFIX_CP)
     /\ englishSegmentHasVowel(cps, 0, breakIndex)
     /\ englishSegmentHasVowel(cps, breakIndex, length)
     /\ ~nextToApostrophe(cps, breakIndex)

\* The break indexes appendMorphologyBreaks pushes (as a set; the caller
\* sorts and deduplicates).
englishMorphologyBreaks(cps, lowerWord) ==
  LET length == Len(cps)
  IN IF length < MIN_PREFIX_CP + MIN_SUFFIX_CP THEN {}
     ELSE { Len(ENGLISH_PREFIXES[k]) : k \in
              { k \in 1..Len(ENGLISH_PREFIXES) :
                  /\ Len(ENGLISH_PREFIXES[k]) < length
                  /\ matchesPatternAt(lowerWord, 0, ENGLISH_PREFIXES[k])
                  /\ englishTryPush(cps, Len(ENGLISH_PREFIXES[k])) } }
          \cup
          { length - Len(ENGLISH_SUFFIXES[k]) : k \in
              { k \in 1..Len(ENGLISH_SUFFIXES) :
                  /\ Len(ENGLISH_SUFFIXES[k]) < length
                  /\ matchesPatternAt(lowerWord, length - Len(ENGLISH_SUFFIXES[k]),
                                      ENGLISH_SUFFIXES[k])
                  /\ englishTryPush(cps, length - Len(ENGLISH_SUFFIXES[k])) } }

isEnglishDiphthong(first, second) ==
  IF ~isLatinLetter(first) \/ ~isLatinLetter(second) THEN FALSE
  ELSE LET f == toLowerLatin(first)
           s == toLowerLatin(second)
       IN CASE f = 97  -> s \in {105, 121, 117}                   \* a: i y u
            [] f = 101 -> s \in {97, 101, 105, 111, 117, 121}     \* e: a e i o u y
            [] f = 105 -> s \in {101, 117, 97}                    \* i: e u a
            [] f = 111 -> s \in {97, 101, 105, 111, 117, 121}     \* o: a e i o u y
            [] f = 117 -> s \in {105, 97, 101}                    \* u: i a e
            [] OTHER -> FALSE

ENGLISH_DIGRAPHS ==
  { Lit(<<"c","h">>), Lit(<<"s","h">>), Lit(<<"t","h">>), Lit(<<"p","h">>),
    Lit(<<"w","h">>), Lit(<<"w","r">>), Lit(<<"k","n">>), Lit(<<"g","n">>),
    Lit(<<"p","s">>), Lit(<<"p","t">>), Lit(<<"p","n">>), Lit(<<"r","h">>) }

isValidEnglishOnsetBigram(firstCp, secondCp) ==
  LET first == lowerLatinChar(firstCp)
      second == lowerLatinChar(secondCp)
  IN IF first = 0 \/ second = 0 THEN FALSE
     ELSE \/ <<first, second>> \in ENGLISH_DIGRAPHS
          \/ (isEnglishStopChar(first) /\ isEnglishApproximantChar(second))
          \/ (isEnglishFricativeChar(first) /\ isEnglishApproximantChar(second))
          \* s + p t k m n f l w c
          \/ (first = 115 /\ second \in {112, 116, 107, 109, 110, 102, 108, 119, 99})
          \* p b t d f k g h m n l s + y
          \/ (second = 121 /\ first \in {112, 98, 116, 100, 102, 107, 103, 104, 109, 110, 108, 115})

isValidEnglishOnsetTrigram(firstCp, secondCp, thirdCp) ==
  LET first == lowerLatinChar(firstCp)
      second == lowerLatinChar(secondCp)
      third == lowerLatinChar(thirdCp)
  IN IF first = 0 \/ second = 0 \/ third = 0 THEN FALSE
     ELSE \/ /\ first = 115
             /\ \/ (second = 112 /\ third \in {108, 114, 119})   \* sp + l r w
                \/ (second = 116 /\ third \in {114, 119, 121})   \* st + r w y
                \/ (second = 107 /\ third \in {108, 114, 119})   \* sk + l r w
                \/ (second = 99 /\ third \in {108, 114})         \* sc + l r
                \/ (second = 102 /\ third = 114)                 \* sfr
                \/ (second = 104 /\ third = 114)                 \* shr
          \/ (first = 116 /\ second = 104 /\ third = 114)        \* thr

\* Verifies that the consonant cluster could begin an English syllable.
englishClusterIsValidOnset(cps, start, end) ==
  IF start >= end THEN FALSE
  ELSE IF \E i \in start..(end - 1) :
            \/ lowerLatinChar(CpAt(cps, i)) = 0
            \/ (~isLatinConsonant(CpAt(cps, i)) /\ lowerLatinChar(CpAt(cps, i)) # 121)
       THEN FALSE
  ELSE LET len == end - start
       IN IF len = 1 THEN TRUE
          ELSE IF len = 2 THEN isValidEnglishOnsetBigram(CpAt(cps, start), CpAt(cps, start + 1))
          ELSE IF len = 3 THEN isValidEnglishOnsetTrigram(CpAt(cps, start), CpAt(cps, start + 1),
                                                          CpAt(cps, start + 2))
          ELSE FALSE

\* Picks the longest legal onset inside the consonant cluster between vowels.
englishOnsetLength(cps, clusterStart, clusterEnd) ==
  LET clusterLen == clusterEnd - clusterStart
      maxLen == Min2(3, clusterLen)
      valid == { len \in 1..maxLen : englishClusterIsValidOnset(cps, clusterEnd - len, clusterEnd) }
  IN IF clusterLen = 0 THEN 0
     ELSE IF valid = {} THEN 1
     ELSE CHOOSE len \in valid : \A o \in valid : o <= len

\* vowelPositions: the 0-based indexes of the vowels, ascending.
latinVowelPositions(cps) ==
  SetToSortedSeq({ i \in 0..(Len(cps) - 1) : isLatinVowel(CpAt(cps, i)) })

\* The index pushed for the vowel pair (leftVowel, rightVowel), as a set of
\* zero or one element.
englishPairBreak(cps, leftVowel, rightVowel) ==
  IF rightVowel - leftVowel = 1
  THEN IF /\ ~isEnglishDiphthong(CpAt(cps, leftVowel), CpAt(cps, rightVowel))
          /\ rightVowel >= MIN_PREFIX_CP
          /\ Len(cps) - rightVowel >= MIN_SUFFIX_CP
          /\ ~nextToApostrophe(cps, rightVowel)
       THEN {rightVowel} ELSE {}
  ELSE LET clusterStart == leftVowel + 1
           clusterEnd == rightVowel
           onsetLen == englishOnsetLength(cps, clusterStart, clusterEnd)
           breakIndex == clusterEnd - onsetLen
       IN IF breakIndex < MIN_PREFIX_CP \/ Len(cps) - breakIndex < MIN_SUFFIX_CP THEN {}
          ELSE IF nextToApostrophe(cps, breakIndex) THEN {}
          ELSE {breakIndex}

\* Returns the codepoint indexes where the word may break by English rules.
englishBreakIndexes(cps) ==
  IF Len(cps) < MIN_PREFIX_CP + MIN_SUFFIX_CP THEN <<>>
  ELSE LET lowerWord == lowercaseLatinWord(cps)
           vowelPositions == latinVowelPositions(cps)
       IN IF Len(vowelPositions) < 2 THEN <<>>
          ELSE SetToSortedSeq(
                 UNION { englishPairBreak(cps, vowelPositions[v], vowelPositions[v + 1]) :
                           v \in 1..(Len(vowelPositions) - 1) }
                 \cup englishMorphologyBreaks(cps, lowerWord))

\* ------------------------------------------------------------------------
\* RussianHyphenator
\* ------------------------------------------------------------------------
\* Codepoints: а1072 б1073 в1074 г1075 д1076 е1077 ж1078 з1079 и1080 й1081
\* к1082 л1083 м1084 н1085 о1086 п1087 р1088 с1089 т1090 у1091 ф1092 х1093
\* ц1094 ч1095 ш1096 щ1097 ъ1098 ы1099 ь1100 э1101 ю1102 я1103
RUSSIAN_PREFIXES ==
  << <<1073, 1077, 1079>>,                     \* без
     <<1088, 1072, 1079>>,                     \* раз
     <<1087, 1086, 1076>>,                     \* под
     <<1085, 1072, 1076>>,                     \* над
     <<1087, 1077, 1088, 1077>>,               \* пере
     <<1089, 1074, 1077, 1088, 1093>>,         \* сверх
     <<1084, 1077, 1078>>,                     \* меж
     <<1089, 1091, 1087, 1077, 1088>>,         \* супер
     <<1087, 1088, 1077, 1076>>,               \* пред
     <<1089, 1072, 1084, 1086>>,               \* само
     <<1086, 1073, 1086>>,                     \* обо
     <<1087, 1088, 1086, 1090, 1080, 1074>> >> \* против

RUSSIAN_SUFFIXES ==
  << <<1085, 1086, 1089, 1090>>,               \* ност
     <<1089, 1090, 1074, 1086>>,               \* ство
     <<1077, 1085, 1080, 1077>>,               \* ение
     <<1072, 1094, 1080, 1103>>,               \* ация
     <<1095, 1080, 1082>>,                     \* чик
     <<1085, 1080, 1082>>,                     \* ник
     <<1090, 1077, 1083, 1100>>,               \* тель
     <<1089, 1082, 1080, 1081>>,               \* ский
     <<1072, 1083, 1100, 1085, 1099, 1081>>,   \* альный
     <<1080, 1079, 1084>>,                     \* изм
     <<1083, 1080, 1074, 1099, 1081>>,         \* ливый
     <<1086, 1089, 1090, 1100>> >>             \* ость

lowercaseCyrillicWord(cps) ==
  [i \in 1..Len(cps) |-> IF isCyrillicLetter(cps[i].value)
                         THEN toLowerCyrillic(cps[i].value) ELSE cps[i].value]

russianSegmentHasVowel(cps, start, end) ==
  /\ start < Len(cps)
  /\ \E i \in start..(Min2(end, Len(cps)) - 1) : isCyrillicVowel(CpAt(cps, i))

exposesLeadingDoubleConsonant(cps, index) ==
  IF index + 1 >= Len(cps) THEN FALSE
  ELSE LET first == CpAt(cps, index)
           second == CpAt(cps, index + 1)
       IN IF ~isCyrillicConsonant(first) \/ ~isCyrillicConsonant(second) THEN FALSE
          ELSE IF toLowerCyrillic(first) # toLowerCyrillic(second) THEN FALSE
          ELSE /\ index > 0 /\ isCyrillicVowel(CpAt(cps, index - 1))
               /\ index + 2 < Len(cps) /\ isCyrillicVowel(CpAt(cps, index + 2))

exposesTrailingDoubleConsonant(cps, index) ==
  IF index < 2 THEN FALSE
  ELSE LET last == CpAt(cps, index - 1)
           prev == CpAt(cps, index - 2)
       IN IF ~isCyrillicConsonant(last) \/ ~isCyrillicConsonant(prev) THEN FALSE
          ELSE IF toLowerCyrillic(last) # toLowerCyrillic(prev) THEN FALSE
          ELSE /\ index >= 3 /\ isCyrillicVowel(CpAt(cps, index - 3))
               /\ index < Len(cps) /\ isCyrillicVowel(CpAt(cps, index))

violatesDoubleConsonantRule(cps, index) ==
  exposesLeadingDoubleConsonant(cps, index) \/ exposesTrailingDoubleConsonant(cps, index)

isSoftSign(cp) == toLowerCyrillic(cp) = 1100        \* ь
isHardSign(cp) == toLowerCyrillic(cp) = 1098        \* ъ
isSoftOrHardSign(cp) == isSoftSign(cp) \/ isHardSign(cp)
isCyrillicShortI(cp) == toLowerCyrillic(cp) = 1081  \* й
isCyrillicYeru(cp) == toLowerCyrillic(cp) = 1099    \* ы

\* в з с
isRussianPrefixConsonant(cp) == toLowerCyrillic(cp) \in {1074, 1079, 1089}
\* з с ж ш щ ч ц
isRussianSibilant(cp) == toLowerCyrillic(cp) \in {1079, 1089, 1078, 1096, 1097, 1095, 1094}
\* б г д п т к
isRussianStop(cp) == toLowerCyrillic(cp) \in {1073, 1075, 1076, 1087, 1090, 1082}

russianSonority(cp) ==
  LET c == toLowerCyrillic(cp)
  IN IF c \in {1083, 1088, 1081} THEN 4                                  \* л р й
     ELSE IF c \in {1084, 1085} THEN 3                                   \* м н
     ELSE IF c \in {1074, 1079, 1078} THEN 2                             \* в з ж
     ELSE IF c \in {1092, 1089, 1096, 1097, 1095, 1094, 1093} THEN 1     \* ф с ш щ ч ц х
     ELSE IF c \in {1073, 1075, 1076, 1087, 1090, 1082} THEN 0           \* б г д п т к
     ELSE 1

\* Applies Russian sonority sequencing to the cluster [start, end).
russianClusterIsValidOnset(cps, start, end) ==
  IF start >= end THEN FALSE
  ELSE IF \E i \in start..(end - 1) :
            ~isCyrillicConsonant(CpAt(cps, i)) \/ isSoftOrHardSign(CpAt(cps, i))
       THEN FALSE
  ELSE IF end - start = 1 THEN TRUE
  ELSE \A i \in start..(end - 2) :
         LET current == CpAt(cps, i)
             next == CpAt(cps, i + 1)
         IN russianSonority(current) > russianSonority(next) =>
              \/ (i = start /\ isRussianPrefixConsonant(current))
              \/ (isRussianSibilant(current) /\ isRussianStop(next))

\* No split: std::numeric_limits<size_t>::max(), modelled as -1.
NO_INDEX == 0 - 1

\* Identifies splits within double consonant clusters.
doubleConsonantSplit(cps, clusterStart, clusterEnd) ==
  LET hits == { i \in clusterStart..(clusterEnd - 2) :
                  /\ isCyrillicConsonant(CpAt(cps, i))
                  /\ toLowerCyrillic(CpAt(cps, i)) = toLowerCyrillic(CpAt(cps, i + 1))
                  /\ ~isSoftOrHardSign(CpAt(cps, i + 1)) }
  IN IF hits = {} THEN NO_INDEX
     ELSE (CHOOSE i \in hits : \A o \in hits : i <= o) + 1

\* Prevents breaks that would create forbidden suffixes.
beginsWithForbiddenSuffix(cps, index) ==
  IF index >= Len(cps) THEN TRUE
  ELSE LET cp == CpAt(cps, index)
       IN isSoftOrHardSign(cp) \/ isCyrillicShortI(cp) \/ isCyrillicYeru(cp)

\* Validates whether a hyphenation break is allowed at the specified index.
russianBreakAllowed(cps, breakIndex) ==
  IF breakIndex = 0 \/ breakIndex >= Len(cps) THEN FALSE
  ELSE IF breakIndex < 2 \/ Len(cps) - breakIndex < 2 THEN FALSE
  ELSE IF ~russianSegmentHasVowel(cps, 0, breakIndex)
          \/ ~russianSegmentHasVowel(cps, breakIndex, Len(cps)) THEN FALSE
  ELSE IF beginsWithForbiddenSuffix(cps, breakIndex) THEN FALSE
  ELSE IF violatesDoubleConsonantRule(cps, breakIndex) THEN FALSE
  ELSE TRUE

\* Chooses the longest valid onset contained within the inter-vowel cluster.
russianOnsetLength(cps, clusterStart, clusterEnd) ==
  LET clusterLen == clusterEnd - clusterStart
      maxLen == Min2(4, clusterLen)
      valid == { len \in 1..maxLen : russianClusterIsValidOnset(cps, clusterEnd - len, clusterEnd) }
  IN IF clusterLen = 0 THEN 0
     ELSE IF valid = {} THEN 1
     ELSE CHOOSE len \in valid : \A o \in valid : o <= len

\* Prevents hyphenation splits immediately beside ь/ъ characters.
nextToSoftSign(cps, index) ==
  IF index = 0 \/ index >= Len(cps) THEN FALSE
  ELSE isSoftOrHardSign(CpAt(cps, index - 1)) \/ isSoftOrHardSign(CpAt(cps, index))

matchesLiteralAt(word, start, literal) ==
  /\ Len(literal) # 0
  /\ start + Len(literal) <= Len(word)
  /\ \A i \in 0..(Len(literal) - 1) : word[start + i + 1] = literal[i + 1]

\* appendLiteralBreaks with breakAllowed = russianBreakAllowed: the indexes
\* pushed (as a set; the caller sorts and deduplicates).
russianMorphologyBreaks(cps, lowerWord) ==
  LET length == Len(lowerWord)
  IN { Len(RUSSIAN_PREFIXES[k]) : k \in
         { k \in 1..Len(RUSSIAN_PREFIXES) :
             /\ Len(RUSSIAN_PREFIXES[k]) < length
             /\ matchesLiteralAt(lowerWord, 0, RUSSIAN_PREFIXES[k])
             /\ russianBreakAllowed(cps, Len(RUSSIAN_PREFIXES[k])) } }
     \cup
     { length - Len(RUSSIAN_SUFFIXES[k]) : k \in
         { k \in 1..Len(RUSSIAN_SUFFIXES) :
             /\ Len(RUSSIAN_SUFFIXES[k]) < length
             /\ matchesLiteralAt(lowerWord, length - Len(RUSSIAN_SUFFIXES[k]), RUSSIAN_SUFFIXES[k])
             /\ russianBreakAllowed(cps, length - Len(RUSSIAN_SUFFIXES[k])) } }

cyrillicVowelPositions(cps) ==
  SetToSortedSeq({ i \in 0..(Len(cps) - 1) : isCyrillicVowel(CpAt(cps, i)) })

\* The index pushed for the vowel pair (leftVowel, rightVowel): zero or one.
russianPairBreak(cps, leftVowel, rightVowel) ==
  IF rightVowel - leftVowel = 1
  THEN IF /\ rightVowel >= MIN_PREFIX_CP
          /\ Len(cps) - rightVowel >= MIN_SUFFIX_CP
          /\ ~nextToSoftSign(cps, rightVowel)
          /\ russianBreakAllowed(cps, rightVowel)
       THEN {rightVowel} ELSE {}
  ELSE LET clusterStart == leftVowel + 1
           clusterEnd == rightVowel
           split == doubleConsonantSplit(cps, clusterStart, clusterEnd)
           breakIndex == IF split # NO_INDEX THEN split
                         ELSE clusterEnd - russianOnsetLength(cps, clusterStart, clusterEnd)
       IN IF breakIndex = NO_INDEX THEN {}
          ELSE IF breakIndex < MIN_PREFIX_CP \/ Len(cps) - breakIndex < MIN_SUFFIX_CP THEN {}
          ELSE IF nextToSoftSign(cps, breakIndex) THEN {}
          ELSE IF ~russianBreakAllowed(cps, breakIndex) THEN {}
          ELSE {breakIndex}

\* Produces syllable break indexes tailored to Russian phonotactics.
russianBreakIndexes(cps) ==
  IF Len(cps) < MIN_PREFIX_CP + MIN_SUFFIX_CP THEN <<>>
  ELSE LET lowerWord == lowercaseCyrillicWord(cps)
           vowelPositions == cyrillicVowelPositions(cps)
       IN IF Len(vowelPositions) < 2 THEN <<>>
          ELSE SetToSortedSeq(
                 UNION { russianPairBreak(cps, vowelPositions[v], vowelPositions[v + 1]) :
                           v \in 1..(Len(vowelPositions) - 1) }
                 \cup russianMorphologyBreaks(cps, lowerWord))

\* ------------------------------------------------------------------------
\* Hyphenator facade (hyphenation/Hyphenator.cpp)
\* ------------------------------------------------------------------------
isExplicitHyphen(cp) == cp = 45 \/ cp = 8208     \* '-' or U+2010

\* A variant that breaks before the hyphen instead of after it.
collectExplicitHyphenIndexesBefore(cps) ==
  SetToSortedSeq({ i \in 0..(Len(cps) - 1) :
    /\ isExplicitHyphen(CpAt(cps, i))
    /\ ~(i = 0 \/ i + 1 >= Len(cps))
    /\ ~(~isAlphabetic(CpAt(cps, i - 1)) \/ ~isAlphabetic(CpAt(cps, i + 1))) })

collectExplicitHyphenIndexes(cps) ==
  SetToSortedSeq({ i + 1 : i \in
    { i \in 0..(Len(cps) - 1) :
        /\ isExplicitHyphen(CpAt(cps, i))
        /\ ~(i = 0 \/ i + 1 >= Len(cps))
        /\ ~(~isAlphabetic(CpAt(cps, i - 1)) \/ ~isAlphabetic(CpAt(cps, i + 1))) } })

\* A variant that accepts any non-empty word.
hasOnlyAlphabeticAny(cps) == cps # <<>>

\* Rejects words containing punctuation or digits unless forced.
hasOnlyAlphabetic(cps) ==
  /\ cps # <<>>
  /\ \A i \in 1..Len(cps) : isAlphabetic(cps[i].value)

\* Asks the language hyphenator for legal break positions inside the word.
collectBreakIndexes(cps) ==
  IF Len(cps) < MIN_PREFIX_CP + MIN_SUFFIX_CP THEN <<>>
  ELSE LET script == detectScript(cps)
       IN IF script = "Latin" THEN englishBreakIndexes(cps)
          ELSE IF script = "Cyrillic" THEN russianBreakIndexes(cps)
          ELSE <<>>

\* A variant that returns the codepoint index itself.
byteOffsetForIndexUnmapped(cps, index) == index

\* Maps a codepoint index back to its byte offset inside the source word.
byteOffsetForIndex(cps, index) ==
  IF index >= Len(cps) THEN (IF cps = <<>> THEN 0 ELSE cps[Len(cps)].byteOffset)
  ELSE cps[index + 1].byteOffset

\* The fallback indexes of breakOffsets' includeFallback loop.
fallbackIndexes(cps) ==
  [k \in 1..(IF Len(cps) >= MIN_PREFIX_CP + MIN_SUFFIX_CP
             THEN Len(cps) - MIN_SUFFIX_CP - MIN_PREFIX_CP + 1 ELSE 0)
     |-> MIN_PREFIX_CP + k - 1]

\* The byte offsets of a list of codepoint indexes.
offsetsForIndexes(cps, indexes) ==
  [k \in 1..Len(indexes) |-> byteOffsetForIndex(cps, indexes[k])]

\* breakOffsets once the explicit hyphen markers of the trimmed word are known.
breakOffsetsOfIndexes(cps, explicitIndexes, includeFallback) ==
  IF explicitIndexes # <<>>
  THEN offsetsForIndexes(cps, explicitIndexes)
  ELSE offsetsForIndexes(cps,
         SortUnique((IF hasOnlyAlphabetic(cps) THEN collectBreakIndexes(cps) ELSE <<>>)
                    \o (IF includeFallback THEN fallbackIndexes(cps) ELSE <<>>)))

\* A variant without the minimum-length rejection.
breakOffsetsOfCodepointsNoMinimum(cps, includeFallback) ==
  breakOffsetsOfIndexes(cps, collectExplicitHyphenIndexes(cps), includeFallback)

\* breakOffsets once the word is decoded and trimmed.
breakOffsetsOfCodepoints(cps, includeFallback) ==
  IF Len(cps) < MIN_PREFIX_CP + MIN_SUFFIX_CP THEN <<>>
  ELSE breakOffsetsOfIndexes(cps, collectExplicitHyphenIndexes(cps), includeFallback)

breakOffsets(word, includeFallback) ==
  IF word = <<>> THEN <<>>
  ELSE breakOffsetsOfCodepoints(trimSurroundingPunctuation(collectCodepoints(word)),
                                includeFallback)

\* ------------------------------------------------------------------------
\* Measurement capability (GfxRenderer as stubbed by the hyphenation tests)
\* ------------------------------------------------------------------------
\* Every UTF-8 codepoint is 10 pixels wide, the hyphen '-' is 5.
RECURSIVE getTextWidthFrom(_, _)
getTextWidthFrom(text, pos) ==
  IF pos >= Len(text) THEN 0
  ELSE LET b == text[pos + 1]
       IN IF b = 45 THEN 5 + getTextWidthFrom(text, pos + 1)
          ELSE LET n == IF b < 128 THEN 1
                        ELSE IF b >= 192 /\ b < 224 THEN 2
                        ELSE IF b >= 224 /\ b < 240 THEN 3
                        ELSE IF b >= 240 /\ b < 248 THEN 4
                        ELSE 1
               IN 10 + getTextWidthFrom(text, pos + n)

getTextWidth(text) == getTextWidthFrom(text, 0)

\* static_cast<uint16_t>
U16(x) == x % 65536

\* ------------------------------------------------------------------------
\* ParsedText.cpp: chooseSplitForWidth
\* ------------------------------------------------------------------------
\* A variant of the loop that keeps the first offset whose prefix fits.
RECURSIVE scanOffsetsFirstFit(_, _, _, _, _, _)
scanOffsetsFirstFit(word, offsets, k, adjustedWidth, hyphenWidth, chosen) ==
  IF k > Len(offsets) THEN chosen
  ELSE LET prefixWidth == getTextWidth(SubstrTo(word, offsets[k]))
       IN IF prefixWidth <= adjustedWidth
          THEN [ok |-> TRUE, byteOffset |-> offsets[k],
                prefixWidth |-> U16(prefixWidth + hyphenWidth)]
          ELSE chosen

\* The for loop over the offsets: keeps the last offset whose prefix fits and
\* stops at the first that does not.  chosen.ok is FALSE while none is chosen.
RECURSIVE scanOffsets(_, _, _, _, _, _)
scanOffsets(word, offsets, k, adjustedWidth, hyphenWidth, chosen) ==
  IF k > Len(offsets) THEN chosen
  ELSE LET prefixWidth == getTextWidth(SubstrTo(word, offsets[k]))
       IN IF prefixWidth <= adjustedWidth
          THEN scanOffsets(word, offsets, k + 1, adjustedWidth, hyphenWidth,
                           [ok |-> TRUE, byteOffset |-> offsets[k],
                            prefixWidth |-> U16(prefixWidth + hyphenWidth)])
          ELSE chosen

\* `return false`: no offset was chosen.
NoDecision == [ok |-> FALSE, byteOffset |-> NO_INDEX, prefixWidth |-> 0]

\* A variant that never asks for the fallback offsets.
chooseSplitForWidthRulesOnly(word, availableWidth, includeFallback) ==
  IF availableWidth <= 0 THEN NoDecision
  ELSE IF availableWidth - getTextWidth(<<45>>) <= 0 THEN NoDecision
  ELSE scanOffsets(word, breakOffsets(word, FALSE), 1,
                   availableWidth - getTextWidth(<<45>>), getTextWidth(<<45>>), NoDecision)

\* Returns [ok, byteOffset, prefixWidth]; ok is the function's result, the other
\* two its out-parameter.
chooseSplitForWidth(word, availableWidth, includeFallback) ==
  IF availableWidth <= 0 THEN NoDecision
  ELSE IF availableWidth - getTextWidth(<<45>>) <= 0 THEN NoDecision
  ELSE scanOffsets(word, breakOffsets(word, includeFallback), 1,
                   availableWidth - getTextWidth(<<45>>), getTextWidth(<<45>>), NoDecision)

\* ------------------------------------------------------------------------
\* ParsedText.cpp: computeLineBreaks (runDp)
\* ------------------------------------------------------------------------
MAX_COST == 2147483647
MAX_LINES == 1000

violatesGuard(guards, i, j) ==
  \E g \in 1..Len(guards) : i <= guards[g].prefixIndex /\ j >= guards[g].tailIndex

\* A variant that charges the slack itself, not its square.
lineCostLinear(dp, j, totalWordCount, pageWidth, currlen) ==
  IF j = totalWordCount - 1 THEN 0
  ELSE IF pageWidth - currlen > MAX_COST - dp[j + 1] THEN MAX_COST
  ELSE (pageWidth - currlen) + dp[j + 1]

\* One candidate line i..j of the inner loop: its cost, saturated at MAX_COST.
lineCost(dp, j, totalWordCount, pageWidth, currlen) ==
  IF j = totalWordCount - 1 THEN 0
  ELSE LET remainingSpace == pageWidth - currlen
           sq == remainingSpace * remainingSpace
       IN IF sq > MAX_COST - dp[j + 1] THEN MAX_COST ELSE sq + dp[j + 1]

\* A variant of the inner loop without `if (currlen > pageWidth) break`.
RECURSIVE dpInnerNoPageLimit(_, _, _, _, _, _, _, _, _)
dpInnerNoPageLimit(wordWidths, guards, pageWidth, spaceWidth, dp, i, j, currlenIn, best) ==
  IF j >= Len(wordWidths) THEN best
  ELSE LET currlen == currlenIn + wordWidths[j + 1] + spaceWidth
       IN IF violatesGuard(guards, i, j)
          THEN dpInnerNoPageLimit(wordWidths, guards, pageWidth, spaceWidth, dp, i, j + 1,
                                  currlen, best)
          ELSE LET cost == lineCost(dp, j, Len(wordWidths), pageWidth, currlen)
               IN dpInnerNoPageLimit(wordWidths, guards, pageWidth, spaceWidth, dp, i, j + 1,
                                     currlen,
                                     IF cost < best.dp THEN [dp |-> cost, ans |-> j] ELSE best)

\* The inner loop `for (j = i; j < totalWordCount; ++j)`.  dp is the table of
\* the entries i+1.., best = [dp, ans] is the entry being computed for i.
RECURSIVE dpInner(_, _, _, _, _, _, _, _, _)
dpInner(wordWidths, guards, pageWidth, spaceWidth, dp, i, j, currlenIn, best) ==
  IF j >= Len(wordWidths) THEN best
  ELSE LET currlen == currlenIn + wordWidths[j + 1] + spaceWidth
       IN IF currlen > pageWidth THEN best
          ELSE IF violatesGuard(guards, i, j)
               THEN dpInner(wordWidths, guards, pageWidth, spaceWidth, dp, i, j + 1, currlen, best)
          ELSE LET cost == lineCost(dp, j, Len(wordWidths), pageWidth, currlen)
               IN dpInner(wordWidths, guards, pageWidth, spaceWidth, dp, i, j + 1, currlen,
                          IF cost < best.dp THEN [dp |-> cost, ans |-> j] ELSE best)

\* The outer loop from i = totalWordCount - 2 down to 0.  tbl maps the word
\* indexes already computed to [dp, ans]; ans of an entry never assigned is 0
\* (the vector is value-initialised).
RECURSIVE dpOuter(_, _, _, _, _, _)
dpOuter(wordWidths, guards, pageWidth, spaceWidth, i, tbl) ==
  IF i < 0 THEN tbl
  ELSE LET dp == [k \in DOMAIN tbl |-> tbl[k].dp]
           e == dpInner(wordWidths, guards, pageWidth, spaceWidth, dp, i, i, 0 - spaceWidth,
                        [dp |-> MAX_COST, ans |-> 0])
       IN dpOuter(wordWidths, guards, pageWidth, spaceWidth, i - 1,
                  [k \in (DOMAIN tbl) \cup {i} |-> IF k = i THEN e ELSE tbl[k]])

dpTable(wordWidths, guards, pageWidth, spaceWidth) ==
  LET n == Len(wordWidths)
  IN dpOuter(wordWidths, guards, pageWidth, spaceWidth, n - 2,
             [k \in {n - 1} |-> [dp |-> 0, ans |-> n - 1]])

\* Back-pointer recovery: `while (currentWordIndex < totalWordCount &&
\* lineBreaks.size() < MAX_LINES)`.  Returns the next (at most) count breaks
\* from currentWordIndex; the iterations are evaluated by halves.
RECURSIVE recoverBreaks(_, _, _, _)
recoverBreaks(tbl, totalWordCount, currentWordIndex, count) ==
  IF count = 0 \/ currentWordIndex >= totalWordCount THEN <<>>
  ELSE IF count = 1 THEN <<tbl[currentWordIndex].ans + 1>>
  ELSE LET half == count \div 2
           first == recoverBreaks(tbl, totalWordCount, currentWordIndex, half)
       IN IF Len(first) < half THEN first
          ELSE first \o recoverBreaks(tbl, totalWordCount, first[Len(first)], count - half)

runDp(wordWidths, guards, pageWidth, spaceWidth) ==
  recoverBreaks(dpTable(wordWidths, guards, pageWidth, spaceWidth), Len(wordWidths), 0, MAX_LINES)

shiftGuardIndices(guards, insertPos) ==
  [g \in 1..Len(guards) |->
     [prefixIndex |-> IF guards[g].prefixIndex >= insertPos
                      THEN guards[g].prefixIndex + 1 ELSE guards[g].prefixIndex,
      tailIndex |-> IF guards[g].tailIndex >= insertPos
                    THEN guards[g].tailIndex + 1 ELSE guards[g].tailIndex]]

\* Sum of wordWidths[from .. to-1] (0-based, as the source loops).
widthSum(wordWidths, from, to) ==
  IF to <= from THEN 0 ELSE SumSeq(SubSeq(wordWidths, from + 1, to))

\* One iteration of the hyphenation pass, for line lineIdx of a DP result:
\* "continue" (next line), "break" (leave the loop) or "split" with the
\* decision for the word that follows the line.
lineSplit(wordsQ, wordWidths, lineBreakIndices, pageWidth, spaceWidth, lineIdx) ==
  LET lineBreak == lineBreakIndices[lineIdx + 1]
      lastBreakAt == IF lineIdx > 0 THEN lineBreakIndices[lineIdx] ELSE 0
      isLastLine == lineIdx = Len(lineBreakIndices) - 1
      lineWordCount == lineBreak - lastBreakAt
      lineWordWidthSum == widthSum(wordWidths, lastBreakAt, lineBreak)
      spacingCount == IF lineWordCount > 0 THEN lineWordCount - 1 ELSE 0
      usedSpace == lineWordWidthSum + spacingCount * spaceWidth
      unusedWidth == pageWidth - usedSpace
      spaceNeeded == IF lineWordCount = 0 THEN 0 ELSE spaceWidth
      budgetForPrefix == unusedWidth - spaceNeeded
      continue == [outcome |-> "continue", lineBreak |-> lineBreak, decision |-> NoDecision]
      splitOrContinue(d) ==
        IF ~d.ok THEN continue
        ELSE IF SubstrFrom(wordsQ[lineBreak + 1], d.byteOffset) = <<>> THEN continue
        ELSE [outcome |-> "split", lineBreak |-> lineBreak, decision |-> d]
  IN IF isLastLine \/ lineBreak >= Len(wordWidths) THEN continue
     ELSE IF budgetForPrefix <= 0 THEN continue
     ELSE IF lineBreak >= Len(wordsQ)
          THEN [outcome |-> "break", lineBreak |-> lineBreak, decision |-> NoDecision]
     ELSE splitOrContinue(chooseSplitForWidth(wordsQ[lineBreak + 1], budgetForPrefix, FALSE))

\* The loop over the lines lo..hi-1 in order, up to the first iteration that
\* does not `continue` (evaluated by halves).
RECURSIVE scanLines(_, _, _, _, _, _, _)
scanLines(wordsQ, wordWidths, lineBreakIndices, pageWidth, spaceWidth, lo, hi) ==
  IF hi <= lo THEN [outcome |-> "continue", lineBreak |-> 0, decision |-> NoDecision]
  ELSE IF hi = lo + 1
       THEN lineSplit(wordsQ, wordWidths, lineBreakIndices, pageWidth, spaceWidth, lo)
  ELSE LET mid == lo + ((hi - lo) \div 2)
           first == scanLines(wordsQ, wordWidths, lineBreakIndices, pageWidth, spaceWidth, lo, mid)
       IN IF first.outcome # "continue" THEN first
          ELSE scanLines(wordsQ, wordWidths, lineBreakIndices, pageWidth, spaceWidth, mid, hi)

\* A variant of the insertion that puts x at the back of s.
InsertAtBack(s, pos, x) == Append(s, x)

\* Insert x before 0-based position pos of s.
InsertAt(s, pos, x) == SubSeq(s, 1, pos) \o <<x>> \o SubSeq(s, pos + 1, Len(s))

\* ------------------------------------------------------------------------
\* ParsedText.cpp: extractLine
\* ------------------------------------------------------------------------
RECURSIVE lineXPosFrom(_, _, _, _, _)
lineXPosFrom(wordWidths, i, lineBreak, xpos, spacing) ==
  IF i >= lineBreak THEN <<>>
  ELSE <<xpos>> \o lineXPosFrom(wordWidths, i + 1, lineBreak,
                                U16(xpos + wordWidths[i + 1] + spacing), spacing)

\* Returns [block, words, wordStyles]: the TextBlock handed to processLine and
\* the queue left behind.
extractLine(wordsQ, stylesQ, blockStyle, breakIndex, pageWidth, spaceWidth, wordWidths, lineBreakIndices) ==
  LET lineBreak == lineBreakIndices[breakIndex + 1]
      lastBreakAt == IF breakIndex > 0 THEN lineBreakIndices[breakIndex] ELSE 0
      lineWordCount == lineBreak - lastBreakAt
      lineWordWidthSum == widthSum(wordWidths, lastBreakAt, lineBreak)
      isLastLine == breakIndex = Len(lineBreakIndices) - 1
      spareSpace == pageWidth - lineWordWidthSum
      spacing == IF blockStyle = "JUSTIFIED" /\ ~isLastLine /\ lineWordCount >= 2
                 THEN spareSpace \div (lineWordCount - 1)
                 ELSE spaceWidth
      xpos0 == IF blockStyle = "RIGHT_ALIGN"
               THEN U16(spareSpace - (lineWordCount - 1) * spaceWidth)
               ELSE IF blockStyle = "CENTER_ALIGN"
               THEN U16((spareSpace - (lineWordCount - 1) * spaceWidth) \div 2)
               ELSE 0
  IN [block |-> [words |-> SubSeq(wordsQ, 1, lineWordCount),
                 wordXpos |-> lineXPosFrom(wordWidths, lastBreakAt, lineBreak, xpos0, spacing),
                 wordStyles |-> SubSeq(stylesQ, 1, lineWordCount),
                 style |-> blockStyle],
      words |-> SubSeq(wordsQ, lineWordCount + 1, Len(wordsQ)),
      wordStyles |-> SubSeq(stylesQ, lineWordCount + 1, Len(stylesQ))]

\* The loop of layoutAndExtractLines over the lines lo..hi-1, in order
\* (evaluated by halves).  q = [blocks, words, wordStyles]: the blocks handed
\* to processLine so far and the queue.  The test on left.blocks, never true,
\* has the first half evaluated once before the second half starts from it.
RECURSIVE extractLines(_, _, _, _, _, _, _, _)
extractLines(q, blockStyle, lo, hi, pageWidth, spaceWidth, wordWidths, lineBreakIndices) ==
  IF hi <= lo THEN q
  ELSE IF hi = lo + 1
       THEN LET r == extractLine(q.words, q.wordStyles, blockStyle, lo, pageWidth, spaceWidth,
                                 wordWidths, lineBreakIndices)
            IN [blocks |-> Append(q.blocks, r.block), words |-> r.words,
                wordStyles |-> r.wordStyles]
  ELSE LET mid == lo + ((hi - lo) \div 2)
           left == extractLines(q, blockStyle, lo, mid, pageWidth, spaceWidth, wordWidths,
                                lineBreakIndices)
       IN IF Len(left.blocks) < 0 THEN q
          ELSE extractLines(left, blockStyle, mid, hi, pageWidth, spaceWidth, wordWidths,
                            lineBreakIndices)

\* ------------------------------------------------------------------------
\* Legacy Hyphenator (Epub/Hyphenator.cpp): splitWord
\* ------------------------------------------------------------------------
LEGACY_MIN_PREFIX_CP == 3

isVowel(cp) == isLatinVowel(cp) \/ isCyrillicVowel(cp)

\* The index pushed for one vowel pair by the legacy englishBreakIndexes.
legacyEnglishPairBreak(cps, leftVowel, rightVowel) ==
  IF rightVowel - leftVowel = 1
  THEN IF /\ ~isEnglishDiphthong(CpAt(cps, leftVowel), CpAt(cps, rightVowel))
          /\ rightVowel >= LEGACY_MIN_PREFIX_CP
          /\ Len(cps) - rightVowel >= MIN_SUFFIX_CP
          /\ ~nextToApostrophe(cps, rightVowel)
       THEN {rightVowel} ELSE {}
  ELSE LET breakIndex == rightVowel - englishOnsetLength(cps, leftVowel + 1, rightVowel)
       IN IF breakIndex < LEGACY_MIN_PREFIX_CP \/ Len(cps) - breakIndex < MIN_SUFFIX_CP THEN {}
          ELSE IF nextToApostrophe(cps, breakIndex) THEN {}
          ELSE {breakIndex}

\* The index pushed for one vowel pair by the legacy russianBreakIndexes.
legacyRussianPairBreak(cps, leftVowel, rightVowel) ==
  IF rightVowel - leftVowel = 1
  THEN IF /\ rightVowel >= LEGACY_MIN_PREFIX_CP
          /\ Len(cps) - rightVowel >= MIN_SUFFIX_CP
          /\ ~nextToSoftSign(cps, rightVowel)
       THEN {rightVowel} ELSE {}
  ELSE LET breakIndex == rightVowel - russianOnsetLength(cps, leftVowel + 1, rightVowel)
       IN IF breakIndex < LEGACY_MIN_PREFIX_CP \/ Len(cps) - breakIndex < MIN_SUFFIX_CP THEN {}
          ELSE IF nextToSoftSign(cps, breakIndex) THEN {}
          ELSE {breakIndex}

legacyEnglishBreakIndexes(cps) ==
  IF Len(cps) < LEGACY_MIN_PREFIX_CP + MIN_SUFFIX_CP THEN <<>>
  ELSE LET pairs(vowelPositions) ==
             IF Len(vowelPositions) < 2 THEN <<>>
             ELSE SetToSortedSeq(
                    UNION { legacyEnglishPairBreak(cps, vowelPositions[v], vowelPositions[v + 1]) :
                              v \in 1..(Len(vowelPositions) - 1) })
       IN pairs(latinVowelPositions(cps))

legacyRussianBreakIndexes(cps) ==
  IF Len(cps) < LEGACY_MIN_PREFIX_CP + MIN_SUFFIX_CP THEN <<>>
  ELSE LET pairs(vowelPositions) ==
             IF Len(vowelPositions) < 2 THEN <<>>
             ELSE SetToSortedSeq(
                    UNION { legacyRussianPairBreak(cps, vowelPositions[v], vowelPositions[v + 1]) :
                              v \in 1..(Len(vowelPositions) - 1) })
       IN pairs(cyrillicVowelPositions(cps))

\* Every boundary between two letters that is not vowel-vowel.
fallbackBreakIndexes(cps) ==
  IF Len(cps) < LEGACY_MIN_PREFIX_CP + MIN_SUFFIX_CP THEN <<>>
  ELSE SetToSortedSeq(
         { i \in LEGACY_MIN_PREFIX_CP..(Len(cps) - MIN_SUFFIX_CP) :
             /\ isAlphabetic(CpAt(cps, i - 1))
             /\ isAlphabetic(CpAt(cps, i))
             /\ \/ (isVowel(CpAt(cps, i - 1)) /\ ~isVowel(CpAt(cps, i)))
                \/ (~isVowel(CpAt(cps, i - 1)) /\ ~isVowel(CpAt(cps, i)))
                \/ (~isVowel(CpAt(cps, i - 1)) /\ isVowel(CpAt(cps, i))) })

legacyCollectBreakIndexes(cps) ==
  IF Len(cps) < LEGACY_MIN_PREFIX_CP + MIN_SUFFIX_CP THEN <<>>
  ELSE LET orFallback(indexes) == IF indexes = <<>> THEN fallbackBreakIndexes(cps) ELSE indexes
           byScript(script) == IF script = "Latin" THEN legacyEnglishBreakIndexes(cps)
                               ELSE IF script = "Cyrillic" THEN legacyRussianBreakIndexes(cps)
                               ELSE <<>>
       IN orFallback(byScript(detectScript(cps)))

\* A variant that starts one byte late.
sliceOneByteLate(word, startByte, endByte) ==
  IF startByte >= endByte \/ startByte >= Len(word) THEN <<>>
  ELSE SubSeq(word, startByte + 2, Min2(endByte, Len(word)))

slice(word, startByte, endByte) ==
  IF startByte >= endByte \/ startByte >= Len(word) THEN <<>>
  ELSE SubSeq(word, startByte + 1, Min2(endByte, Len(word)))

\* splitWord's first loop: the last break index whose prefix fits, stopping
\* at the first that does not.
RECURSIVE legacyScanIndexes(_, _, _, _, _, _)
legacyScanIndexes(word, cps, breakIndexes, k, adjustedWidth, chosenIndex) ==
  IF k > Len(breakIndexes) THEN chosenIndex
  ELSE IF getTextWidth(SubstrTo(word, byteOffsetForIndex(cps, breakIndexes[k]))) <= adjustedWidth
       THEN legacyScanIndexes(word, cps, breakIndexes, k + 1, adjustedWidth, breakIndexes[k])
       ELSE chosenIndex

\* splitWord's forced loop: every index is visited in ascending order and the
\* last one that qualifies is kept (the inner `break` is never reached).
legacyForcedIndex(word, cps, adjustedWidth) ==
  LET lastOf(fits) == IF fits = {} THEN NO_INDEX
                      ELSE CHOOSE idx \in fits : \A other \in fits : other <= idx
  IN lastOf({ idx \in LEGACY_MIN_PREFIX_CP..(Len(cps) - MIN_SUFFIX_CP) :
                \/ adjustedWidth <= 0
                \/ getTextWidth(SubstrTo(word, byteOffsetForIndex(cps, idx))) <= adjustedWidth })

\* Hyphenator::splitWord with a non-null result.  Returns [ok, head, tail].
splitWord(word, availableWidth, force) ==
  LET failed == [ok |-> FALSE, head |-> <<>>, tail |-> <<>>]
      adjustedWidth == availableWidth - getTextWidth(<<45>>)
      cut(splitByte) ==
        IF SubstrTo(word, splitByte) = <<>> \/ slice(word, splitByte, Len(word)) = <<>>
        THEN failed
        ELSE [ok |-> TRUE, head |-> SubstrTo(word, splitByte) \o <<45>>,
              tail |-> slice(word, splitByte, Len(word))]
      finish(cps, chosenIndex) ==
        IF chosenIndex = NO_INDEX THEN failed ELSE cut(byteOffsetForIndex(cps, chosenIndex))
      forced(cps, chosenIndex) ==
        IF chosenIndex = NO_INDEX /\ force
        THEN finish(cps, legacyForcedIndex(word, cps, adjustedWidth))
        ELSE finish(cps, chosenIndex)
      choose(cps) ==
        IF Len(cps) < LEGACY_MIN_PREFIX_CP + MIN_SUFFIX_CP THEN failed
        ELSE IF ~force /\ ~hasOnlyAlphabetic(cps) THEN failed
        ELSE forced(cps, IF adjustedWidth > 0
                         THEN legacyScanIndexes(word, cps, legacyCollectBreakIndexes(cps), 1,
                                                adjustedWidth, NO_INDEX)
                         ELSE NO_INDEX)
  IN IF word = <<>> THEN failed ELSE choose(collectCodepoints(word))

\* ------------------------------------------------------------------------
\* Inputs
\* ------------------------------------------------------------------------
\* Longest paragraph (words added) and number of layout calls.
MaxWords == 3
MaxCalls == 2

\* U+2003 EM SPACE, "\xe2\x80\x83"
EmSpace == <<226, 128, 131>>

\* Styled words the caller may add.  Widths are 10 per codepoint, 5 per '-'.
Tokens ==
  { [word |-> <<>>, style |-> "REGULAR"],                                   \* rejected by addWord
    [word |-> <<116, 111>>, style |-> "REGULAR"],                           \* "to"
    [word |-> <<116, 101, 97, 99, 104, 101, 114>>, style |-> "BOLD"],       \* "teacher"
    [word |-> <<97, 98, 45, 99, 100>>, style |-> "ITALIC"],                 \* "ab-cd"
    [word |-> <<97, 98, 99, 100, 45, 101>>, style |-> "REGULAR"],           \* "abcd-e"
    [word |-> utf8EncodeAll(<<1087, 1088, 1080, 1074, 1077, 1090>>),
     style |-> "BOLD_ITALIC"] }                                             \* "привет"

\* renderer.getScreenWidth() - horizontalMargin, and renderer.getSpaceWidth().
PageWidths == {45, 65}
SpaceWidths == {5}

BlockStyles == {"JUSTIFIED", "LEFT_ALIGN", "CENTER_ALIGN", "RIGHT_ALIGN"}

\* ------------------------------------------------------------------------
\* State
\* ------------------------------------------------------------------------
VARIABLES
  words,                \* ParsedText::words
  wordStyles,           \* ParsedText::wordStyles
  style,                \* ParsedText::style
  extraParagraphSpacing,
  hyphenationEnabled,
  pageWidth,            \* the renderer's screen width minus the margin
  spaceWidth,           \* the renderer's space width
  pc,                   \* position inside layoutAndExtractLines
  includeLastLine,      \* argument of the call in progress
  wordWidths,           \* local of layoutAndExtractLines
  wordsIt,              \* calculateWordWidths: index of wordsIt / wordStylesIt
  lineBreakIndices,     \* computeLineBreaks: lineBreakIndices
  guards,               \* computeLineBreaks: guards
  emitted,              \* the TextBlocks the latest call handed to processLine, in order
  calls,                \* number of layoutAndExtractLines calls made
  laidOut,              \* history: the queue when the extraction loop started
  splitLog,             \* history: the splits of the call in progress
  probe                 \* the pure-function experiments (SpecHyph)

\* EpubReaderScreen and its two tasks (SpecScreen)
VARIABLES
  updateRequired,       \* EpubReaderScreen::updateRequired
  renderingMutex,       \* who holds EpubReaderScreen::renderingMutex
  section,              \* EpubReaderScreen::section
  currentSpineIndex,    \* EpubReaderScreen::currentSpineIndex
  nextPageNumber,       \* EpubReaderScreen::nextPageNumber
  subScreen,            \* whether EpubReaderScreen::subScreen is set
  inputTask,            \* position of the task calling onEnter / handleInput / onExit
  buttons,              \* what inputManager reports to the handleInput in progress
  displayTask,          \* position of the task behind displayTaskHandle
  displayed,            \* what the panel shows
  progress,             \* contents of progress.bin
  requests,             \* history: navigation requests that set updateRequired
  wanted,               \* history: the position the latest request asked for
  passStartedAfter,     \* history: `requests` when the pass in progress took the lock
  shownAfter,           \* history: passStartedAfter of the pass that drew `displayed`
  sdFailed,             \* history: a render pass met an SD card failure or an exception
  firstPagePrev         \* history: the latest request was `previous` at page 0 of item 0

navigationVars == <<currentSpineIndex, nextPageNumber, section>>

historyVars == <<requests, wanted, passStartedAfter, shownAfter, sdFailed, firstPagePrev>>

screenVars == <<updateRequired, renderingMutex, section, currentSpineIndex, nextPageNumber,
                subScreen, inputTask, buttons, displayTask, displayed, progress, requests,
                wanted, passStartedAfter, shownAfter, sdFailed, firstPagePrev>>

layoutVars == <<words, wordStyles, style, extraParagraphSpacing, hyphenationEnabled, pageWidth,
                spaceWidth, pc, includeLastLine, wordWidths, wordsIt, lineBreakIndices, guards,
                emitted, calls, laidOut, splitLog>>

vars == <<words, wordStyles, style, extraParagraphSpacing, hyphenationEnabled, pageWidth,
          spaceWidth, pc, includeLastLine, wordWidths, wordsIt, lineBreakIndices, guards,
          emitted, calls, laidOut, splitLog, probe, screenVars>>

NoProbe == [kind |-> "none"]

\* ------------------------------------------------------------------------
\* EpubReaderScreen: values
\* ------------------------------------------------------------------------
\* epub->getSpineItemsCount() of the book that is open, and the number of pages
\* every section of it lays out to.
SpineCount == 2
PagesPerSection == 2

\* handleInput calls that may ask for navigation, and how far below 0 repeated
\* requests for the previous chapter may take currentSpineIndex.
MaxRequests == 3
MaxSpineDrift == 2

\* The value of nextPageNumber that stands for "the last page of the section".
UINT16_MAX == 65535

\* section == nullptr, and a Section as `new Section(epub, spineIndex, renderer)`
\* leaves it: no page counted yet, at page 0.
NoSection == [exists |-> FALSE, spineIndex |-> 0, currentPage |-> 0, pageCount |-> 0]

newSection(spineIndex) ==
  [exists |-> TRUE, spineIndex |-> spineIndex, currentPage |-> 0, pageCount |-> 0]

\* What the panel can show.
BlankPanel == [kind |-> "blank", spine |-> 0, page |-> 0]
EndOfBook == [kind |-> "end", spine |-> SpineCount, page |-> 0]
EmptyChapter(spine) == [kind |-> "empty", spine |-> spine, page |-> 0]
OutOfBounds(spine, page) == [kind |-> "outOfBounds", spine |-> spine, page |-> page]
PageShown(spine, page) == [kind |-> "page", spine |-> spine, page |-> page]

Panels ==
  {BlankPanel, EndOfBook}
  \cup { PageShown(s, p) : s \in 0..(SpineCount - 1), p \in 0..(PagesPerSection - 1) }

\* progress.bin: absent, or the four bytes renderScreen wrote.
NoProgress == [saved |-> FALSE, spine |-> 0, page |-> 0]
SavedProgress ==
  { [saved |-> TRUE, spine |-> s, page |-> p] :
      s \in 0..(SpineCount - 1), p \in 0..(PagesPerSection - 1) }

\* What inputManager can report to one handleInput call: BTN_CONFIRM pressed,
\* BTN_BACK pressed, a previous or next button released, and whether it was
\* held for more than SKIP_CHAPTER_MS.
NoButtons == [confirm |-> FALSE, back |-> FALSE, released |-> "none", held |-> FALSE]

ButtonEvents ==
  { ev \in [confirm : BOOLEAN, back : BOOLEAN, released : {"none", "prev", "next"},
            held : BOOLEAN] :
      /\ ev # NoButtons
      /\ ev.held => ev.released # "none"
      /\ ev.back => (ev.released = "none" /\ ~ev.confirm) }

\* The page renderScreen draws when it starts with currentSpineIndex = spineIndex,
\* no section and nextPageNumber = pageNumber.
requestedPosition(spineIndex, pageNumber) ==
  LET clamped == IF spineIndex < 0 THEN 0
                 ELSE IF spineIndex > SpineCount THEN SpineCount ELSE spineIndex
  IN IF clamped = SpineCount THEN EndOfBook
     ELSE PageShown(clamped, IF pageNumber = UINT16_MAX THEN PagesPerSection - 1
                             ELSE pageNumber)

\* A request to draw again whatever is current, and the panel of a faulted task.
AnyPanel == [kind |-> "any", spine |-> 0, page |-> 0]
FaultPanel == [kind |-> "fault", spine |-> 0, page |-> 0]

\* The members as the constructor and the in-class initialisers leave them.
ScreenConstructed ==
  /\ updateRequired = FALSE
  /\ renderingMutex = "null"
  /\ section = NoSection
  /\ currentSpineIndex = 0
  /\ nextPageNumber = 0
  /\ subScreen = FALSE
  /\ inputTask = "constructed"
  /\ buttons = NoButtons
  /\ displayTask = "none"
  /\ displayed = BlankPanel
  /\ requests = 0
  /\ wanted = AnyPanel
  /\ passStartedAfter = 0
  /\ shownAfter = 0
  /\ sdFailed = FALSE
  /\ firstPagePrev = FALSE

\* The state after `ParsedText(style, extraParagraphSpacing, hyphenationEnabled)`.  The reader
\* screen is constructed and not entered.
Init ==
  /\ words = <<>>
  /\ wordStyles = <<>>
  /\ style \in BlockStyles
  /\ extraParagraphSpacing \in BOOLEAN
  /\ hyphenationEnabled \in BOOLEAN
  /\ pageWidth \in PageWidths
  /\ spaceWidth \in SpaceWidths
  /\ pc = "idle"
  /\ includeLastLine = TRUE
  /\ wordWidths = <<>>
  /\ wordsIt = 0
  /\ lineBreakIndices = <<>>
  /\ guards = <<>>
  /\ emitted = <<>>
  /\ calls = 0
  /\ laidOut = <<>>
  /\ splitLog = <<>>
  /\ probe = NoProbe
  /\ ScreenConstructed
  /\ progress = NoProgress

\* ------------------------------------------------------------------------
\* Operations
\* ------------------------------------------------------------------------
\* ParsedText::addWord
AddWord(tok) ==
  /\ pc = "idle"
  /\ calls = 0
  /\ Len(words) < MaxWords
  /\ IF tok.word = <<>>
     THEN UNCHANGED <<words, wordStyles>>
     ELSE /\ words' = Append(words, tok.word)
          /\ wordStyles' = Append(wordStyles, tok.style)
  /\ UNCHANGED <<style, extraParagraphSpacing, hyphenationEnabled, pageWidth, spaceWidth, pc,
                 includeLastLine, wordWidths, wordsIt, lineBreakIndices, guards, emitted, calls,
                 laidOut, splitLog, probe>>
  /\ UNCHANGED screenVars

\* layoutAndExtractLines on an empty queue: returns at once.
LayoutEmpty(incl) ==
  /\ pc = "idle"
  /\ calls < MaxCalls
  /\ words = <<>>
  /\ calls' = calls + 1
  /\ includeLastLine' = incl
  /\ emitted' = <<>>
  /\ splitLog' = <<>>
  /\ laidOut' = <<>>
  /\ wordWidths' = <<>>
  /\ wordsIt' = 0
  /\ lineBreakIndices' = <<>>
  /\ guards' = <<>>
  /\ UNCHANGED <<words, wordStyles, style, extraParagraphSpacing, hyphenationEnabled, pageWidth,
                 spaceWidth, pc, probe>>
  /\ UNCHANGED screenVars

\* layoutAndExtractLines up to the loop of calculateWordWidths: the em-space
\* indent is inserted into the first word.
StartLayout(incl) ==
  /\ pc = "idle"
  /\ calls < MaxCalls
  /\ words # <<>>
  /\ calls' = calls + 1
  /\ includeLastLine' = incl
  /\ words' = IF ~extraParagraphSpacing
              THEN [words EXCEPT ![1] = EmSpace \o words[1]]
              ELSE words
  /\ wordWidths' = <<>>
  /\ wordsIt' = 0
  /\ lineBreakIndices' = <<>>
  /\ guards' = <<>>
  /\ emitted' = <<>>
  /\ splitLog' = <<>>
  /\ laidOut' = <<>>
  /\ pc' = "widths"
  /\ UNCHANGED <<wordStyles, style, extraParagraphSpacing, hyphenationEnabled, pageWidth,
                 spaceWidth, probe>>
  /\ UNCHANGED screenVars

\* A variant of the tail that takes what follows the whole word.
splitTailPastEnd(word, byteOffset) == SubstrFrom(word, Len(word))

\* The hyphen-terminated prefix and the tail of a split at byteOffset.
splitPrefix(word, byteOffset) == SubstrTo(word, byteOffset) \o <<45>>
splitTail(word, byteOffset) == SubstrFrom(word, byteOffset)

\* One iteration of the while loop of calculateWordWidths; leaving the loop
\* enters computeLineBreaks.
WidthStep ==
  /\ pc = "widths"
  /\ wordsIt < Len(words)
  /\ \E word \in {words[wordsIt + 1]} :
     \E width \in {U16(getTextWidth(word))} :
     \E decision \in {IF width > pageWidth THEN chooseSplitForWidth(word, pageWidth, TRUE)
                      ELSE NoDecision} :
       IF width > pageWidth /\ decision.ok
       THEN \E tail \in {splitTail(word, decision.byteOffset)} :
            \E prefix \in {splitPrefix(word, decision.byteOffset)} :
              IF tail = <<>>
              THEN \* `continue` without advancing: the same iteration runs again,
                   \* for ever
                   /\ pc' = "looping"
                   /\ UNCHANGED <<words, wordStyles, wordWidths, wordsIt, splitLog>>
              ELSE /\ words' = InsertAt([words EXCEPT ![wordsIt + 1] = prefix],
                                        wordsIt + 1, tail)
                   /\ wordStyles' = InsertAt(wordStyles, wordsIt + 1, wordStyles[wordsIt + 1])
                   /\ wordWidths' = Append(wordWidths, decision.prefixWidth)
                   /\ wordsIt' = wordsIt + 1
                   /\ splitLog' = Append(splitLog,
                                         [phase |-> "widths", index |-> wordsIt,
                                          original |-> word, prefix |-> prefix, tail |-> tail])
                   /\ pc' = "widths"
       ELSE /\ wordWidths' = Append(wordWidths, width)
            /\ wordsIt' = wordsIt + 1
            /\ pc' = IF wordsIt + 1 >= Len(words) THEN "dp" ELSE "widths"
            /\ UNCHANGED <<words, wordStyles, splitLog>>
  /\ UNCHANGED <<style, extraParagraphSpacing, hyphenationEnabled, pageWidth, spaceWidth,
                 includeLastLine, lineBreakIndices, guards, emitted, calls, laidOut,
                 probe>>
  /\ UNCHANGED screenVars

\* computeLineBreaks: runDp, and the return when hyphenation is disabled.
RunDp ==
  /\ pc = "dp"
  /\ lineBreakIndices' = runDp(wordWidths, guards, pageWidth, spaceWidth)
  /\ pc' = IF hyphenationEnabled THEN "hyphenate" ELSE "extract"
  /\ UNCHANGED <<words, wordStyles, style, extraParagraphSpacing, hyphenationEnabled, pageWidth,
                 spaceWidth, includeLastLine, wordWidths, wordsIt, guards, emitted, calls,
                 laidOut, splitLog, probe>>
  /\ UNCHANGED screenVars

\* computeLineBreaks: the pass over the lines after a DP run; inserts at most
\* one split and runs the DP again, or returns.
HyphenationPass ==
  /\ pc = "hyphenate"
  /\ \E r \in {scanLines(words, wordWidths, lineBreakIndices, pageWidth, spaceWidth, 0,
                         Len(lineBreakIndices))} :
       IF r.outcome = "split"
       THEN \E lineBreak \in {r.lineBreak} :
            \E originalWord \in {words[lineBreak + 1]} :
            \E prefix \in {splitPrefix(originalWord, r.decision.byteOffset)} :
            \E tail \in {splitTail(originalWord, r.decision.byteOffset)} :
              /\ words' = InsertAt([words EXCEPT ![lineBreak + 1] = tail], lineBreak, prefix)
              /\ wordStyles' = InsertAt(wordStyles, lineBreak, wordStyles[lineBreak + 1])
              /\ wordWidths' = [InsertAt(wordWidths, lineBreak, r.decision.prefixWidth)
                                  EXCEPT ![lineBreak + 2] = U16(getTextWidth(tail))]
              /\ guards' = Append(shiftGuardIndices(guards, lineBreak),
                                  [prefixIndex |-> lineBreak, tailIndex |-> lineBreak + 1])
              /\ splitLog' = Append(splitLog,
                                    [phase |-> "hyphenate", index |-> lineBreak,
                                     original |-> originalWord, prefix |-> prefix,
                                     tail |-> tail])
              /\ pc' = "dp"
       ELSE /\ pc' = "extract"
            /\ UNCHANGED <<words, wordStyles, wordWidths, guards, splitLog>>
  /\ UNCHANGED <<style, extraParagraphSpacing, hyphenationEnabled, pageWidth, spaceWidth,
                 includeLastLine, wordsIt, lineBreakIndices, emitted, calls, laidOut,
                 probe>>
  /\ UNCHANGED screenVars

\* layoutAndExtractLines: the loop calling extractLine for each line, and the
\* return.
ExtractLines ==
  /\ pc = "extract"
  /\ \E r \in {extractLines([blocks |-> <<>>, words |-> words, wordStyles |-> wordStyles],
                            style, 0,
                            IF includeLastLine THEN Len(lineBreakIndices)
                            ELSE Len(lineBreakIndices) - 1,
                            pageWidth, spaceWidth, wordWidths, lineBreakIndices)} :
       /\ emitted' = r.blocks
       /\ words' = r.words
       /\ wordStyles' = r.wordStyles
  /\ laidOut' = words
  /\ pc' = "idle"
  /\ UNCHANGED <<style, extraParagraphSpacing, hyphenationEnabled, pageWidth, spaceWidth,
                 includeLastLine, wordWidths, wordsIt, lineBreakIndices, guards, calls,
                 splitLog, probe>>
  /\ UNCHANGED screenVars

Next ==
  \/ \E tok \in Tokens : AddWord(tok)
  \/ \E incl \in BOOLEAN : LayoutEmpty(incl)
  \/ \E incl \in BOOLEAN : StartLayout(incl)
  \/ WidthStep
  \/ RunDp
  \/ HyphenationPass
  \/ ExtractLines

Spec == Init /\ [][Next]_vars

\* ------------------------------------------------------------------------
\* The splitting functions on their own
\* ------------------------------------------------------------------------
\* Longest word tried, in codepoints.
MaxProbeLen == 5

\* 'a', 't', '-', U+2010 HYPHEN, U+0438 CYRILLIC SMALL LETTER I, '('
ProbeAlphabet == {97, 116, 45, 8208, 1080, 40}

\* English words the rules are tried on besides the words over ProbeAlphabet.
ProbeLexicon ==
  { Lit(<<"r","e","a","d">>), Lit(<<"r","e","a","c","t">>),
    Lit(<<"a","b","s","t","a","i","n">>), Lit(<<"t","e","a","c","h","e","r">>),
    Lit(<<"e","s","t","r","a">>), Lit(<<"r","e","p","e","a","t">>),
    Lit(<<"m","i","s","t","a","k","e">>) }

\* "12345" and "test123": words with digits.
ProbeDigitWords ==
  { <<49, 50, 51, 52, 53>>, Lit(<<"t","e","s","t">>) \o <<49, 50, 51>> }

\* Russian words with a soft or hard sign: "угольник", "подъезд", "сильный",
\* "письмо".
ProbeCyrillicWords ==
  { utf8EncodeAll(<<1091, 1075, 1086, 1083, 1100, 1085, 1080, 1082>>),
    utf8EncodeAll(<<1087, 1086, 1076, 1098, 1077, 1079, 1076>>),
    utf8EncodeAll(<<1089, 1080, 1083, 1100, 1085, 1099, 1081>>),
    utf8EncodeAll(<<1087, 1080, 1089, 1100, 1084, 1086>>) }

ProbeWords ==
  { utf8EncodeAll(cs) : cs \in UNION { [1..n -> ProbeAlphabet] : n \in 0..MaxProbeLen } }
  \cup ProbeLexicon \cup ProbeDigitWords \cup ProbeCyrillicWords

\* availableWidth of the calls tried, in pixels.
ProbeWidths == {15, 25, 45}

\* Longest paragraph handed to the line breaker alone, in words, and the word
\* widths, page widths and space width tried.
MaxProbeWords == 5
ProbeWordWidths == {10, 20, 35}
ProbePageWidths == {50, 60}
ProbeSpaceWidth == 5

ProbeParagraphs ==
  UNION { [1..n -> ProbeWordWidths] : n \in 1..MaxProbeWords }

\* Paragraphs of words handed to the line breaker with hyphenation enabled:
\* at most MaxTextWords words of TextLexicon, on pages of TextPageWidths.
MaxTextWords == 4
TextLexicon ==
  { Lit(<<"a">>), Lit(<<"t","o">>), Lit(<<"e","s","t","r","a">>),
    Lit(<<"r","e","a","c","t","i","o","n","s">>) }
TextPageWidths == {60, 110}

ProbeTexts ==
  UNION { [1..n -> TextLexicon] : n \in 1..MaxTextWords }

\* ------------------------------------------------------------------------
\* Section.cpp: the section cache on the SD card
\* ------------------------------------------------------------------------
SECTION_FILE_VERSION == 5

\* Most pages a cached section holds.
MaxCachedPages == 2

\* The layout parameters written to and compared with section.bin (one margin
\* stands for the four).
LayoutParameters ==
  [fontId : {1, 2}, lineCompression : {1}, margin : {5}, extraParagraphSpacing : BOOLEAN]

\* The cache directory of a section: whether it exists, section.bin (version
\* tag, parameters, page count) and the indexes i of the files page_<i>.bin.
EmptyCache ==
  [dir |-> FALSE, hasSectionFile |-> FALSE, version |-> 0,
   parameters |-> [fontId |-> 1, lineCompression |-> 1, margin |-> 5,
                   extraParagraphSpacing |-> FALSE],
   pageCount |-> 0, pages |-> {}]

\* Caches as persistPageDataToSD leaves them, under this or another version
\* of the file format.
ProbeCaches ==
  {EmptyCache}
  \cup { [dir |-> TRUE, hasSectionFile |-> TRUE, version |-> v, parameters |-> ps,
          pageCount |-> n, pages |-> 0..(n - 1)] :
           v \in {SECTION_FILE_VERSION - 1, SECTION_FILE_VERSION, SECTION_FILE_VERSION + 1},
           ps \in LayoutParameters, n \in 0..MaxCachedPages }

\* Section::clearCache; removed is the outcome of FsHelpers::removeDir.
clearCache(cache, removed) ==
  IF ~cache.dir THEN [ok |-> TRUE, cache |-> cache]
  ELSE IF ~removed THEN [ok |-> FALSE, cache |-> cache]
  ELSE [ok |-> TRUE, cache |-> EmptyCache]

\* A variant that does not look at the version tag.
loadCacheMetadataAnyVersion(cache, pageCountIn, requested, removed) ==
  IF ~cache.hasSectionFile
  THEN [ok |-> FALSE, pageCount |-> pageCountIn, cache |-> cache]
  ELSE IF requested # cache.parameters
  THEN [ok |-> FALSE, pageCount |-> pageCountIn, cache |-> clearCache(cache, removed).cache]
  ELSE [ok |-> TRUE, pageCount |-> cache.pageCount, cache |-> cache]

\* Section::loadCacheMetadata on a Section whose pageCount is pageCountIn;
\* returns [ok, pageCount, cache].  The result of clearCache is dropped.
loadCacheMetadata(cache, pageCountIn, requested, removed) ==
  IF ~cache.hasSectionFile
  THEN [ok |-> FALSE, pageCount |-> pageCountIn, cache |-> cache]
  ELSE IF cache.version # SECTION_FILE_VERSION
  THEN [ok |-> FALSE, pageCount |-> pageCountIn, cache |-> clearCache(cache, removed).cache]
  ELSE IF \/ requested.fontId # cache.parameters.fontId
          \/ requested.lineCompression # cache.parameters.lineCompression
          \/ requested.margin # cache.parameters.margin
          \/ requested.extraParagraphSpacing # cache.parameters.extraParagraphSpacing
  THEN [ok |-> FALSE, pageCount |-> pageCountIn, cache |-> clearCache(cache, removed).cache]
  ELSE [ok |-> TRUE, pageCount |-> cache.pageCount, cache |-> cache]

\* ------------------------------------------------------------------------
\* Serialization.h and TextBlock.cpp: the persisted line format
\* ------------------------------------------------------------------------
\* A variant of writePod that keeps the low byte of the value only.
writePodLowByte(value, size) == [k \in 1..size |-> IF k = 1 THEN value % 256 ELSE 0]

\* 256 ^ k
RECURSIVE pow256(_)
pow256(k) == IF k = 0 THEN 1 ELSE 256 * pow256(k - 1)

\* writePod(file, value) for an integer of sizeof(T) = size: the bytes of the
\* value as they lie in memory (little-endian on the target).
writePod(value, size) == [k \in 1..size |-> (value \div pow256(k - 1)) % 256]

\* readPod(file, value) at 0-based position pos: [value, pos] after the read.
RECURSIVE podValue(_, _, _)
podValue(bytes, pos, size) ==
  IF size = 0 THEN 0 ELSE bytes[pos + 1] + 256 * podValue(bytes, pos + 1, size - 1)

readPod(bytes, pos, size) == [value |-> podValue(bytes, pos, size), pos |-> pos + size]

\* sizeof of the types TextBlock writes: uint32_t counts, uint16_t pen
\* offsets, and the enums EpdFontStyle and BLOCK_STYLE.
SizeOfCount == 4
SizeOfXpos == 2
SizeOfEnum == 4

\* writeString: the length as uint32_t, then the bytes of the string.
writeString(str) == writePod(Len(str), SizeOfCount) \o str

\* readString at position pos: [value, pos].
readString(bytes, pos) ==
  LET len == readPod(bytes, pos, SizeOfCount)
  IN [value |-> SubSeq(bytes, len.pos + 1, len.pos + len.value), pos |-> len.pos + len.value]

\* for (const auto& w : words) writeString(file, w)
RECURSIVE writeStrings(_)
writeStrings(strs) ==
  IF strs = <<>> THEN <<>> ELSE writeString(Head(strs)) \o writeStrings(Tail(strs))

\* for (auto x : list) writePod(file, x)
RECURSIVE writePods(_, _)
writePods(values, size) ==
  IF values = <<>> THEN <<>> ELSE writePod(Head(values), size) \o writePods(Tail(values), size)

\* words.resize(count); for (auto& w : words) readString(file, w): [values, pos]
RECURSIVE readStrings(_, _, _)
readStrings(bytes, pos, count) ==
  IF count = 0 THEN [values |-> <<>>, pos |-> pos]
  ELSE LET first == readString(bytes, pos)
           rest == readStrings(bytes, first.pos, count - 1)
       IN [values |-> <<first.value>> \o rest.values, pos |-> rest.pos]

\* list.resize(count); for (auto& x : list) readPod(file, x): [values, pos]
RECURSIVE readPods(_, _, _, _)
readPods(bytes, pos, count, size) ==
  IF count = 0 THEN [values |-> <<>>, pos |-> pos]
  ELSE LET first == readPod(bytes, pos, size)
           rest == readPods(bytes, first.pos, count - 1, size)
       IN [values |-> <<first.value>> \o rest.values, pos |-> rest.pos]

\* TextBlock::serialize: the bytes written to the file.  Styles are the
\* integer values of their enums.
serialize(block) ==
  writePod(Len(block.words), SizeOfCount) \o writeStrings(block.words)
  \o writePod(Len(block.wordXpos), SizeOfCount) \o writePods(block.wordXpos, SizeOfXpos)
  \o writePod(Len(block.wordStyles), SizeOfCount) \o writePods(block.wordStyles, SizeOfEnum)
  \o writePod(block.style, SizeOfEnum)

\* TextBlock::deserialize on a file positioned at byte 0: [block, pos], pos
\* the position of the file after the reads.
deserialize(bytes) ==
  LET wc == readPod(bytes, 0, SizeOfCount)
      ws == readStrings(bytes, wc.pos, wc.value)
      xc == readPod(bytes, ws.pos, SizeOfCount)
      xs == readPods(bytes, xc.pos, xc.value, SizeOfXpos)
      sc == readPod(bytes, xs.pos, SizeOfCount)
      ss == readPods(bytes, sc.pos, sc.value, SizeOfEnum)
      st == readPod(bytes, ss.pos, SizeOfEnum)
  IN [block |-> [words |-> ws.values, wordXpos |-> xs.values, wordStyles |-> ss.values,
                 style |-> st.value],
      pos |-> st.pos]

\* Lines to persist: at most MaxBlockWords words of at most MaxWordBytes
\* bytes over NUL, 'a' and the two bytes of U+043F, with pen offsets below
\* and above one byte and the first and last value of each style enum.
MaxBlockWords == 2
MaxWordBytes == 2
BlockBytes == {0, 97, 208, 191}
BlockWords == UNION { [1..n -> BlockBytes] : n \in 0..MaxWordBytes }
BlockXpos == {0, 300}
BlockEnumValues == {0, 3}

ProbeBlocks ==
  UNION { { [words |-> ws, wordXpos |-> xs, wordStyles |-> ss, style |-> st] :
              ws \in [1..n -> BlockWords], xs \in [1..n -> BlockXpos],
              ss \in [1..n -> BlockEnumValues], st \in BlockEnumValues } :
          n \in 0..MaxBlockWords }

InitHyph ==
  /\ words = <<>>
  /\ wordStyles = <<>>
  /\ style = "JUSTIFIED"
  /\ extraParagraphSpacing = TRUE
  /\ hyphenationEnabled = TRUE
  /\ pageWidth = 45
  /\ spaceWidth = 5
  /\ pc = "idle"
  /\ includeLastLine = TRUE
  /\ wordWidths = <<>>
  /\ wordsIt = 0
  /\ lineBreakIndices = <<>>
  /\ guards = <<>>
  /\ emitted = <<>>
  /\ calls = 0
  /\ laidOut = <<>>
  /\ splitLog = <<>>
  /\ probe \in { [kind |-> "input", word |-> w] : w \in ProbeWords }
               \cup { [kind |-> "paragraph", wordWidths |-> ws] : ws \in ProbeParagraphs }
               \cup { [kind |-> "text", words |-> ws] : ws \in ProbeTexts }
               \cup { [kind |-> "cache", cache |-> c] : c \in ProbeCaches }
               \cup { [kind |-> "block", block |-> b] : b \in ProbeBlocks }
  /\ ScreenConstructed
  /\ progress = NoProgress

\* Hyphenator::breakOffsets(word, includeFallback)
ApplyBreakOffsets(includeFallback) ==
  /\ probe.kind = "input"
  /\ probe' = [kind |-> "breakOffsets", word |-> probe.word,
               includeFallback |-> includeFallback,
               offsets |-> breakOffsets(probe.word, includeFallback)]
  /\ UNCHANGED layoutVars
  /\ UNCHANGED screenVars

\* The legacy Hyphenator::splitWord(renderer, fontId, word, style,
\* availableWidth, result, force)
ApplySplitWord(availableWidth, force) ==
  /\ probe.kind = "input"
  /\ \E r \in {splitWord(probe.word, availableWidth, force)} :
       probe' = [kind |-> "splitWord", word |-> probe.word, ok |-> r.ok, head |-> r.head,
                 tail |-> r.tail, availableWidth |-> availableWidth, force |-> force]
  /\ UNCHANGED layoutVars
  /\ UNCHANGED screenVars

\* The split ParsedText makes of a word: chooseSplitForWidth, then the prefix
\* and the tail it stores.
ApplyParsedTextSplit(availableWidth, includeFallback) ==
  /\ probe.kind = "input"
  /\ \E d \in {chooseSplitForWidth(probe.word, availableWidth, includeFallback)} :
       probe' = [kind |-> "parsedTextSplit", word |-> probe.word, ok |-> d.ok,
                 availableWidth |-> availableWidth, includeFallback |-> includeFallback,
                 byteOffset |-> d.byteOffset, prefixWidth |-> d.prefixWidth,
                 head |-> IF d.ok THEN splitPrefix(probe.word, d.byteOffset) ELSE <<>>,
                 tail |-> IF d.ok THEN splitTail(probe.word, d.byteOffset) ELSE <<>>]
  /\ UNCHANGED layoutVars
  /\ UNCHANGED screenVars

\* computeLineBreaks with hyphenation disabled: one run of the DP, no guards.
ApplyComputeLineBreaks(page) ==
  /\ probe.kind = "paragraph"
  /\ probe' = [kind |-> "lineBreaks", wordWidths |-> probe.wordWidths, pageWidth |-> page,
               lineBreakIndices |-> runDp(probe.wordWidths, <<>>, page, ProbeSpaceWidth)]
  /\ UNCHANGED layoutVars
  /\ UNCHANGED screenVars

\* A word of the given width under the measure: 10 px per letter, 5 px for a
\* trailing '-'.
RECURSIVE probeWordOfWidth(_)
probeWordOfWidth(w) ==
  IF w >= 10 THEN <<97>> \o probeWordOfWidth(w - 10)
  ELSE IF w >= 5 THEN <<45>>
  ELSE <<>>

\* computeLineBreaks with hyphenation enabled: runDp, then the pass over the
\* lines; a split is inserted with its guard and the loop starts over, and the
\* breaks of the first pass that inserts nothing are returned.
RECURSIVE computeLineBreaks(_, _, _, _, _)
computeLineBreaks(wordsQ, widthsQ, guardsIn, page, space) ==
  LET breaks == runDp(widthsQ, guardsIn, page, space)
      r == scanLines(wordsQ, widthsQ, breaks, page, space, 0, Len(breaks))
  IN IF r.outcome # "split"
     THEN [words |-> wordsQ, wordWidths |-> widthsQ, guards |-> guardsIn,
           lineBreakIndices |-> breaks]
     ELSE LET originalWord == wordsQ[r.lineBreak + 1]
              prefix == splitPrefix(originalWord, r.decision.byteOffset)
              tail == splitTail(originalWord, r.decision.byteOffset)
          IN computeLineBreaks(
               InsertAt([wordsQ EXCEPT ![r.lineBreak + 1] = tail], r.lineBreak, prefix),
               [InsertAt(widthsQ, r.lineBreak, r.decision.prefixWidth)
                  EXCEPT ![r.lineBreak + 2] = U16(getTextWidth(tail))],
               Append(shiftGuardIndices(guardsIn, r.lineBreak),
                      [prefixIndex |-> r.lineBreak, tailIndex |-> r.lineBreak + 1]),
               page, space)

\* computeLineBreaks with hyphenation enabled on a paragraph whose widths
\* calculateWordWidths has recorded (no word is wider than the page).
ApplyHyphenatedLineBreaks(page) ==
  /\ probe.kind = "text"
  /\ \A i \in 1..Len(probe.words) : getTextWidth(probe.words[i]) <= page
  /\ \E r \in {computeLineBreaks(probe.words,
                                 [i \in 1..Len(probe.words) |->
                                    U16(getTextWidth(probe.words[i]))],
                                 <<>>, page, ProbeSpaceWidth)} :
       probe' = [kind |-> "hyphenatedLineBreaks", given |-> probe.words,
                 pageWidth |-> page, words |-> r.words, wordWidths |-> r.wordWidths,
                 guards |-> r.guards, lineBreakIndices |-> r.lineBreakIndices]
  /\ UNCHANGED layoutVars
  /\ UNCHANGED screenVars

\* extractLine(0, ...) on the queue the line breaks were computed for: the
\* first line is finalized and handed to processLine.
ApplyExtractLine(blockStyle) ==
  /\ probe.kind = "lineBreaks"
  /\ \E r \in {extractLine([i \in 1..Len(probe.wordWidths) |->
                               probeWordOfWidth(probe.wordWidths[i])],
                            [i \in 1..Len(probe.wordWidths) |-> "REGULAR"],
                            blockStyle, 0, probe.pageWidth, ProbeSpaceWidth,
                            probe.wordWidths, probe.lineBreakIndices)} :
       probe' = [kind |-> "line", wordWidths |-> probe.wordWidths,
                 pageWidth |-> probe.pageWidth,
                 lineBreakIndices |-> probe.lineBreakIndices, block |-> r.block]
  /\ UNCHANGED layoutVars
  /\ UNCHANGED screenVars

\* Section::loadCacheMetadata(fontId, lineCompression, margins,
\* extraParagraphSpacing) on a Section that holds pageCountIn.
ApplyLoadCacheMetadata(pageCountIn, requested, removed) ==
  /\ probe.kind = "cache"
  /\ \E r \in {loadCacheMetadata(probe.cache, pageCountIn, requested, removed)} :
       probe' = [kind |-> "loadCacheMetadata", stored |-> probe.cache,
                 pageCountIn |-> pageCountIn, requested |-> requested, removed |-> removed,
                 ok |-> r.ok, pageCount |-> r.pageCount, cache |-> r.cache]
  /\ UNCHANGED layoutVars
  /\ UNCHANGED screenVars

\* TextBlock::serialize into an empty file, other data written behind it,
\* then TextBlock::deserialize from the start of the file.
ApplySerializeDeserialize(trailing) ==
  /\ probe.kind = "block"
  /\ \E bytes \in {serialize(probe.block)} :
     \E r \in {deserialize(bytes \o trailing)} :
       probe' = [kind |-> "roundTrip", block |-> probe.block, written |-> Len(bytes),
                 restored |-> r.block, consumed |-> r.pos]
  /\ UNCHANGED layoutVars
  /\ UNCHANGED screenVars

NextHyph ==
  \/ \E trailing \in {<<>>, <<1, 0, 0, 0>>} : ApplySerializeDeserialize(trailing)
  \/ \E pageCountIn \in 0..MaxCachedPages, requested \in LayoutParameters, removed \in BOOLEAN :
       ApplyLoadCacheMetadata(pageCountIn, requested, removed)
  \/ \E blockStyle \in BlockStyles : ApplyExtractLine(blockStyle)
  \/ \E page \in TextPageWidths : ApplyHyphenatedLineBreaks(page)
  \/ \E page \in ProbePageWidths : ApplyComputeLineBreaks(page)
  \/ \E includeFallback \in BOOLEAN : ApplyBreakOffsets(includeFallback)
  \/ \E availableWidth \in ProbeWidths, force \in BOOLEAN : ApplySplitWord(availableWidth, force)
  \/ \E availableWidth \in ProbeWidths, includeFallback \in BOOLEAN :
       ApplyParsedTextSplit(availableWidth, includeFallback)

SpecHyph == InitHyph /\ [][NextHyph]_vars

\* ------------------------------------------------------------------------
\* EpubReaderScreen: operations
\* ------------------------------------------------------------------------
\* A reader screen constructed over an open book, before onEnter; progress.bin
\* is absent or left by an earlier visit.
InitScreen ==
  /\ words = <<>>
  /\ wordStyles = <<>>
  /\ style = "JUSTIFIED"
  /\ extraParagraphSpacing = TRUE
  /\ hyphenationEnabled = TRUE
  /\ pageWidth = 45
  /\ spaceWidth = 5
  /\ pc = "idle"
  /\ includeLastLine = TRUE
  /\ wordWidths = <<>>
  /\ wordsIt = 0
  /\ lineBreakIndices = <<>>
  /\ guards = <<>>
  /\ emitted = <<>>
  /\ calls = 0
  /\ laidOut = <<>>
  /\ splitLog = <<>>
  /\ probe = NoProbe
  /\ ScreenConstructed
  /\ progress \in {NoProgress} \cup SavedProgress

\* onEnter: creates the mutex, reads progress.bin, asks for the first update
\* and starts the display task.
OnEnter ==
  /\ inputTask = "constructed"
  /\ renderingMutex' = "free"
  /\ currentSpineIndex' = IF progress.saved THEN progress.spine ELSE currentSpineIndex
  /\ nextPageNumber' = IF progress.saved THEN progress.page ELSE nextPageNumber
  /\ updateRequired' = TRUE
  /\ displayTask' = "poll"
  /\ inputTask' = "idle"
  /\ UNCHANGED <<section, subScreen, buttons, displayed, progress, historyVars>>
  /\ UNCHANGED <<layoutVars, probe>>

\* displayTaskLoop: `if (updateRequired)` found the flag set.
DisplayPoll ==
  /\ displayTask = "poll"
  /\ updateRequired
  /\ displayTask' = "clear"
  /\ UNCHANGED <<updateRequired, renderingMutex, navigationVars, subScreen, inputTask, buttons,
                 displayed, progress, historyVars>>
  /\ UNCHANGED <<layoutVars, probe>>

\* displayTaskLoop: `updateRequired = false`.
DisplayClear ==
  /\ displayTask = "clear"
  /\ updateRequired' = FALSE
  /\ displayTask' = "take"
  /\ UNCHANGED <<renderingMutex, navigationVars, subScreen, inputTask, buttons, displayed,
                 progress, historyVars>>
  /\ UNCHANGED <<layoutVars, probe>>

\* displayTaskLoop: `SemaphoreGuard guard(renderingMutex)`; the render pass starts.
DisplayTake ==
  /\ displayTask = "take"
  /\ renderingMutex = "free"
  /\ renderingMutex' = "display"
  /\ passStartedAfter' = requests
  /\ displayTask' = "begin"
  /\ UNCHANGED <<updateRequired, navigationVars, subScreen, inputTask, buttons, displayed,
                 progress, requests, wanted, shownAfter, sdFailed>>
  /\ UNCHANGED firstPagePrev
  /\ UNCHANGED <<layoutVars, probe>>

\* renderScreen up to `new Section(...)`: clamps currentSpineIndex, draws the
\* end-of-book screen, or goes on to the section.
RenderBegin ==
  /\ displayTask = "begin"
  /\ \E spine \in {IF currentSpineIndex < 0 THEN 0
                   ELSE IF currentSpineIndex > SpineCount THEN SpineCount
                   ELSE currentSpineIndex} :
       /\ currentSpineIndex' = spine
       /\ IF spine = SpineCount
          THEN /\ displayed' = EndOfBook
               /\ shownAfter' = passStartedAfter
               /\ displayTask' = "release"
               /\ UNCHANGED section
          ELSE /\ section' = IF section.exists THEN section ELSE newSection(spine)
               /\ displayTask' = IF section.exists THEN "page" ELSE "loadCache"
               /\ UNCHANGED <<displayed, shownAfter>>
  /\ UNCHANGED <<updateRequired, renderingMutex, nextPageNumber, subScreen, inputTask, buttons,
                 progress, requests, wanted, passStartedAfter, sdFailed>>
  /\ UNCHANGED firstPagePrev
  /\ UNCHANGED <<layoutVars, probe>>

\* renderScreen: section->loadCacheMetadata(...) finds the section's cache
\* (reading pageCount from it) or does not.
RenderLoadCache(found) ==
  /\ displayTask = "loadCache"
  /\ section.exists
  /\ section' = IF found THEN [section EXCEPT !.pageCount = PagesPerSection] ELSE section
  /\ displayTask' = IF found THEN "setPage" ELSE "index"
  /\ UNCHANGED <<updateRequired, renderingMutex, currentSpineIndex, nextPageNumber, subScreen,
                 inputTask, buttons, displayed, progress, historyVars>>
  /\ UNCHANGED <<layoutVars, probe>>

\* renderScreen: section->persistPageDataToSD(...) completes one more page
\* (Section::onPageComplete).
RenderIndexPage ==
  /\ displayTask = "index"
  /\ section.exists
  /\ section.pageCount < PagesPerSection
  /\ section' = [section EXCEPT !.pageCount = @ + 1]
  /\ UNCHANGED <<updateRequired, renderingMutex, currentSpineIndex, nextPageNumber, subScreen,
                 inputTask, buttons, displayTask, displayed, progress, historyVars>>
  /\ UNCHANGED <<layoutVars, probe>>

\* renderScreen: persistPageDataToSD returned true.
RenderIndexDone ==
  /\ displayTask = "index"
  /\ section.exists
  /\ section.pageCount = PagesPerSection
  /\ displayTask' = "setPage"
  /\ UNCHANGED <<updateRequired, renderingMutex, navigationVars, subScreen, inputTask, buttons,
                 displayed, progress, historyVars>>
  /\ UNCHANGED <<layoutVars, probe>>

\* renderScreen: persistPageDataToSD returned false; `section.reset(); return`.
RenderIndexFail ==
  /\ displayTask = "index"
  /\ section.exists
  /\ ~sdFailed
  /\ section' = NoSection
  /\ sdFailed' = TRUE
  /\ displayTask' = "release"
  /\ UNCHANGED <<updateRequired, renderingMutex, currentSpineIndex, nextPageNumber, subScreen,
                 inputTask, buttons, displayed, progress, requests, wanted, passStartedAfter,
                 shownAfter>>
  /\ UNCHANGED firstPagePrev
  /\ UNCHANGED <<layoutVars, probe>>

\* renderScreen: the page the new section opens at.
RenderSetPage ==
  /\ displayTask = "setPage"
  /\ section.exists
  /\ section' = [section EXCEPT !.currentPage = IF nextPageNumber = UINT16_MAX
                                                 THEN section.pageCount - 1
                                                 ELSE nextPageNumber]
  /\ displayTask' = "page"
  /\ UNCHANGED <<updateRequired, renderingMutex, currentSpineIndex, nextPageNumber, subScreen,
                 inputTask, buttons, displayed, progress, historyVars>>
  /\ UNCHANGED <<layoutVars, probe>>

\* renderScreen from clearScreen to renderContents: the empty-chapter and
\* out-of-bounds screens, the page, or a page that does not load
\* (`section.reset(); return renderScreen()`).
RenderPage(loaded) ==
  /\ displayTask = "page"
  /\ section.exists
  /\ IF section.pageCount = 0
     THEN /\ displayed' = EmptyChapter(section.spineIndex)
          /\ shownAfter' = passStartedAfter
          /\ displayTask' = "release"
          /\ UNCHANGED <<section, sdFailed>>
     ELSE IF section.currentPage < 0 \/ section.currentPage >= section.pageCount
     THEN /\ displayed' = OutOfBounds(section.spineIndex, section.currentPage)
          /\ shownAfter' = passStartedAfter
          /\ displayTask' = "release"
          /\ UNCHANGED <<section, sdFailed>>
     ELSE IF loaded
     THEN /\ displayed' = PageShown(section.spineIndex, section.currentPage)
          /\ shownAfter' = passStartedAfter
          /\ displayTask' = "save"
          /\ UNCHANGED <<section, sdFailed>>
     ELSE /\ ~sdFailed
          /\ section' = NoSection
          /\ sdFailed' = TRUE
          /\ displayTask' = "begin"
          /\ UNCHANGED <<displayed, shownAfter>>
  /\ UNCHANGED <<updateRequired, renderingMutex, currentSpineIndex, nextPageNumber, subScreen,
                 inputTask, buttons, progress, requests, wanted, passStartedAfter>>
  /\ UNCHANGED firstPagePrev
  /\ UNCHANGED <<layoutVars, probe>>

\* renderScreen: writes currentSpineIndex and section->currentPage to progress.bin.
RenderSaveProgress ==
  /\ displayTask = "save"
  /\ section.exists
  /\ progress' = [saved |-> TRUE, spine |-> currentSpineIndex, page |-> section.currentPage]
  /\ displayTask' = "release"
  /\ UNCHANGED <<updateRequired, renderingMutex, navigationVars, subScreen, inputTask, buttons,
                 displayed, historyVars>>
  /\ UNCHANGED <<layoutVars, probe>>

\* renderScreen dereferences `section` after the other task has reset it: the
\* task faults, or it carries on over the freed Section and draws whatever it
\* finds there.
RenderUseAfterReset(panel) ==
  /\ displayTask \in {"loadCache", "index", "setPage", "page", "save"}
  /\ ~section.exists
  /\ displayed' = panel
  /\ shownAfter' = passStartedAfter
  /\ displayTask' = IF panel = FaultPanel THEN "fault" ELSE "release"
  /\ UNCHANGED <<updateRequired, renderingMutex, navigationVars, subScreen, inputTask, buttons,
                 progress, requests, wanted, passStartedAfter, sdFailed>>
  /\ UNCHANGED firstPagePrev
  /\ UNCHANGED <<layoutVars, probe>>

\* renderScreen throws; displayTaskLoop catches and logs the exception and
\* the guard goes out of scope.
RenderThrow ==
  /\ displayTask \in {"begin", "loadCache", "index", "setPage", "page", "save"}
  /\ ~sdFailed
  /\ sdFailed' = TRUE
  /\ displayTask' = "release"
  /\ UNCHANGED <<updateRequired, renderingMutex, navigationVars, subScreen, inputTask, buttons,
                 displayed, progress, requests, wanted, passStartedAfter, shownAfter,
                 firstPagePrev>>
  /\ UNCHANGED <<layoutVars, probe>>

\* displayTaskLoop: the guard goes out of scope; the render pass is over.
DisplayRelease ==
  /\ displayTask = "release"
  /\ renderingMutex' = "free"
  /\ displayTask' = "poll"
  /\ UNCHANGED <<updateRequired, navigationVars, subScreen, inputTask, buttons, displayed,
                 progress, historyVars>>
  /\ UNCHANGED <<layoutVars, probe>>

\* handleInput is called with no sub screen open.
HandleInputBegin(ev) ==
  /\ inputTask = "idle"
  /\ ~subScreen
  /\ requests < MaxRequests
  /\ ev.released = "prev" => currentSpineIndex > -MaxSpineDrift
  /\ buttons' = ev
  /\ inputTask' = IF ev.confirm THEN "confirmTake" ELSE "buttons"
  /\ UNCHANGED <<updateRequired, renderingMutex, navigationVars, subScreen, displayTask,
                 displayed, progress, historyVars>>
  /\ UNCHANGED <<layoutVars, probe>>

\* `SemaphoreGuard guard(renderingMutex)` in handleInput and the
\* xSemaphoreTake of onExit: blocks until the mutex is free.
TakeRenderingMutex ==
  /\ inputTask \in {"confirmTake", "skipTake", "prevTake", "nextTake", "exitTake"}
  /\ renderingMutex = "free"
  /\ renderingMutex' = "input"
  /\ inputTask' = CASE inputTask = "confirmTake" -> "confirmLocked"
                    [] inputTask = "skipTake" -> "skipLocked"
                    [] inputTask = "prevTake" -> "prevLocked"
                    [] inputTask = "nextTake" -> "nextLocked"
                    [] inputTask = "exitTake" -> "exitLocked"
  /\ UNCHANGED <<updateRequired, navigationVars, subScreen, buttons, displayTask, displayed,
                 progress, historyVars>>
  /\ UNCHANGED <<layoutVars, probe>>

\* handleInput, BTN_CONFIRM: opens the chapter selection screen under the
\* guard and falls through to the other buttons.
ConfirmOpen ==
  /\ inputTask = "confirmLocked"
  /\ subScreen' = TRUE
  /\ renderingMutex' = "free"
  /\ inputTask' = "buttons"
  /\ UNCHANGED <<updateRequired, navigationVars, buttons, displayTask, displayed, progress,
                 historyVars>>
  /\ UNCHANGED <<layoutVars, probe>>

\* handleInput, BTN_BACK: onGoHome(), by which the owner leaves the screen.
HandleBack ==
  /\ inputTask = "buttons"
  /\ buttons.back
  /\ inputTask' = "exitTake"
  /\ buttons' = NoButtons
  /\ UNCHANGED <<updateRequired, renderingMutex, navigationVars, subScreen, displayTask,
                 displayed, progress, historyVars>>
  /\ UNCHANGED <<layoutVars, probe>>

\* handleInput: neither a previous nor a next button was released.
HandleNoRelease ==
  /\ inputTask = "buttons"
  /\ ~buttons.back
  /\ buttons.released = "none"
  /\ inputTask' = "idle"
  /\ buttons' = NoButtons
  /\ UNCHANGED <<updateRequired, renderingMutex, navigationVars, subScreen, displayTask,
                 displayed, progress, historyVars>>
  /\ UNCHANGED <<layoutVars, probe>>

\* handleInput's test for the end of the book.
atEndOfBook == currentSpineIndex > 0 /\ currentSpineIndex >= SpineCount

\* handleInput: any release at the end of the book goes back to the last page.
HandleEndOfBook ==
  /\ inputTask = "buttons"
  /\ ~buttons.back
  /\ buttons.released # "none"
  /\ atEndOfBook
  /\ currentSpineIndex' = SpineCount - 1
  /\ nextPageNumber' = UINT16_MAX
  /\ updateRequired' = TRUE
  /\ requests' = requests + 1
  /\ wanted' = requestedPosition(SpineCount - 1, UINT16_MAX)
  /\ inputTask' = "idle"
  /\ buttons' = NoButtons
  /\ UNCHANGED <<renderingMutex, section, subScreen, displayTask, displayed, progress,
                 passStartedAfter, shownAfter, sdFailed>>
  /\ firstPagePrev' = FALSE
  /\ UNCHANGED <<layoutVars, probe>>

\* handleInput: a long press asks for the previous or next chapter.
HandleSkipChapter ==
  /\ inputTask = "buttons"
  /\ ~buttons.back
  /\ buttons.released # "none"
  /\ ~atEndOfBook
  /\ buttons.held
  /\ inputTask' = "skipTake"
  /\ UNCHANGED <<updateRequired, renderingMutex, navigationVars, subScreen, buttons,
                 displayTask, displayed, progress, historyVars>>
  /\ UNCHANGED <<layoutVars, probe>>

\* handleInput, skipChapter under the guard.
SkipChapterLocked ==
  /\ inputTask = "skipLocked"
  /\ \E spine \in {IF buttons.released = "next" THEN currentSpineIndex + 1
                   ELSE currentSpineIndex - 1} :
       /\ currentSpineIndex' = spine
       /\ wanted' = requestedPosition(spine, 0)
  /\ nextPageNumber' = 0
  /\ section' = NoSection
  /\ updateRequired' = TRUE
  /\ requests' = requests + 1
  /\ renderingMutex' = "free"
  /\ inputTask' = "idle"
  /\ buttons' = NoButtons
  /\ UNCHANGED <<subScreen, displayTask, displayed, progress, passStartedAfter, shownAfter,
                 sdFailed>>
  /\ firstPagePrev' = FALSE
  /\ UNCHANGED <<layoutVars, probe>>

\* handleInput: `if (!section)`, ask for the book to be rendered again.
HandleNoSection ==
  /\ inputTask = "buttons"
  /\ ~buttons.back
  /\ buttons.released # "none"
  /\ ~atEndOfBook
  /\ ~buttons.held
  /\ ~section.exists
  /\ updateRequired' = TRUE
  /\ requests' = requests + 1
  /\ wanted' = requestedPosition(currentSpineIndex, nextPageNumber)
  /\ inputTask' = "idle"
  /\ buttons' = NoButtons
  /\ UNCHANGED <<renderingMutex, navigationVars, subScreen, displayTask, displayed, progress,
                 passStartedAfter, shownAfter, sdFailed>>
  /\ UNCHANGED firstPagePrev
  /\ UNCHANGED <<layoutVars, probe>>

\* handleInput, prevReleased: one page back inside the section, or on to the
\* guard for the previous chapter.
HandlePrev ==
  /\ inputTask = "buttons"
  /\ ~buttons.back
  /\ buttons.released = "prev"
  /\ ~atEndOfBook
  /\ ~buttons.held
  /\ section.exists
  /\ IF section.currentPage > 0
     THEN /\ section' = [section EXCEPT !.currentPage = @ - 1]
          /\ wanted' = PageShown(section.spineIndex, section.currentPage - 1)
          /\ inputTask' = "flag"
     ELSE /\ inputTask' = "prevTake"
          /\ UNCHANGED <<section, wanted>>
  /\ UNCHANGED <<updateRequired, renderingMutex, currentSpineIndex, nextPageNumber, subScreen,
                 buttons, displayTask, displayed, progress, requests, passStartedAfter,
                 shownAfter, sdFailed>>
  /\ firstPagePrev' = (section.currentPage <= 0 /\ firstPagePrev)
  /\ UNCHANGED <<layoutVars, probe>>

\* handleInput, nextReleased: one page on inside the section, or on to the
\* guard for the next chapter.
HandleNext ==
  /\ inputTask = "buttons"
  /\ ~buttons.back
  /\ buttons.released = "next"
  /\ ~atEndOfBook
  /\ ~buttons.held
  /\ section.exists
  /\ IF section.currentPage < section.pageCount - 1
     THEN /\ section' = [section EXCEPT !.currentPage = @ + 1]
          /\ wanted' = PageShown(section.spineIndex, section.currentPage + 1)
          /\ inputTask' = "flag"
     ELSE /\ inputTask' = "nextTake"
          /\ UNCHANGED <<section, wanted>>
  /\ UNCHANGED <<updateRequired, renderingMutex, currentSpineIndex, nextPageNumber, subScreen,
                 buttons, displayTask, displayed, progress, requests, passStartedAfter,
                 shownAfter, sdFailed>>
  /\ firstPagePrev' = (section.currentPage >= section.pageCount - 1 /\ firstPagePrev)
  /\ UNCHANGED <<layoutVars, probe>>

\* handleInput, prevReleased at page 0, under the guard.
PrevChapterLocked ==
  /\ inputTask = "prevLocked"
  /\ nextPageNumber' = UINT16_MAX
  /\ currentSpineIndex' = currentSpineIndex - 1
  /\ section' = NoSection
  /\ wanted' = requestedPosition(currentSpineIndex - 1, UINT16_MAX)
  /\ renderingMutex' = "free"
  /\ inputTask' = "flag"
  /\ UNCHANGED <<updateRequired, subScreen, buttons, displayTask, displayed, progress, requests,
                 passStartedAfter, shownAfter, sdFailed>>
  /\ firstPagePrev' = (currentSpineIndex = 0 /\ section.exists /\ section.currentPage = 0)
  /\ UNCHANGED <<layoutVars, probe>>

\* handleInput, nextReleased at the last page, under the guard.
NextChapterLocked ==
  /\ inputTask = "nextLocked"
  /\ nextPageNumber' = 0
  /\ currentSpineIndex' = currentSpineIndex + 1
  /\ section' = NoSection
  /\ wanted' = requestedPosition(currentSpineIndex + 1, 0)
  /\ renderingMutex' = "free"
  /\ inputTask' = "flag"
  /\ UNCHANGED <<updateRequired, subScreen, buttons, displayTask, displayed, progress, requests,
                 passStartedAfter, shownAfter, sdFailed>>
  /\ firstPagePrev' = FALSE
  /\ UNCHANGED <<layoutVars, probe>>

\* handleInput: the `updateRequired = true` that ends the page-turn branches.
SetUpdateRequired ==
  /\ inputTask = "flag"
  /\ updateRequired' = TRUE
  /\ requests' = requests + 1
  /\ inputTask' = "idle"
  /\ buttons' = NoButtons
  /\ UNCHANGED <<renderingMutex, navigationVars, subScreen, displayTask, displayed, progress,
                 wanted, passStartedAfter, shownAfter, sdFailed>>
  /\ UNCHANGED firstPagePrev
  /\ UNCHANGED <<layoutVars, probe>>

\* handleInput with the sub screen open: subScreen->handleInput() calls the
\* selection callback with newSpineIndex.
SubScreenSelect(newSpineIndex) ==
  /\ inputTask = "idle"
  /\ subScreen
  /\ requests < MaxRequests
  /\ IF currentSpineIndex # newSpineIndex
     THEN /\ currentSpineIndex' = newSpineIndex
          /\ nextPageNumber' = 0
          /\ section' = NoSection
          /\ wanted' = requestedPosition(newSpineIndex, 0)
     ELSE /\ wanted' = AnyPanel
          /\ UNCHANGED navigationVars
  /\ inputTask' = "subScreenExit"
  /\ UNCHANGED <<updateRequired, renderingMutex, subScreen, buttons, displayTask, displayed,
                 progress, requests, passStartedAfter, shownAfter, sdFailed>>
  /\ firstPagePrev' = (currentSpineIndex = newSpineIndex /\ firstPagePrev)
  /\ UNCHANGED <<layoutVars, probe>>

\* handleInput with the sub screen open: subScreen->handleInput() calls the
\* go-back callback.
SubScreenGoBack ==
  /\ inputTask = "idle"
  /\ subScreen
  /\ requests < MaxRequests
  /\ wanted' = AnyPanel
  /\ inputTask' = "subScreenExit"
  /\ UNCHANGED <<updateRequired, renderingMutex, navigationVars, subScreen, buttons,
                 displayTask, displayed, progress, requests, passStartedAfter, shownAfter,
                 sdFailed>>
  /\ UNCHANGED firstPagePrev
  /\ UNCHANGED <<layoutVars, probe>>

\* Both callbacks end with `subScreen->onExit(); subScreen.reset();
\* updateRequired = true`.
SubScreenExit ==
  /\ inputTask = "subScreenExit"
  /\ subScreen' = FALSE
  /\ updateRequired' = TRUE
  /\ requests' = requests + 1
  /\ inputTask' = "idle"
  /\ UNCHANGED <<renderingMutex, navigationVars, buttons, displayTask, displayed, progress,
                 wanted, passStartedAfter, shownAfter, sdFailed>>
  /\ UNCHANGED firstPagePrev
  /\ UNCHANGED <<layoutVars, probe>>

\* onExit with the mutex taken: resets the sub screen, deletes the display task
\* and deletes the mutex.
ExitScreen ==
  /\ inputTask = "exitLocked"
  /\ subScreen' = FALSE
  /\ displayTask' = "deleted"
  /\ renderingMutex' = "deleted"
  /\ inputTask' = "exitGuard"
  /\ UNCHANGED <<updateRequired, navigationVars, buttons, displayed, progress, historyVars>>
  /\ UNCHANGED <<layoutVars, probe>>

\* onExit: the MutexGuard declared after the take goes out of scope and calls
\* xSemaphoreGive on its copy of the handle.  Called on a deleted semaphore it
\* returns, or the task faults.
ExitGuardGive(faults) ==
  /\ inputTask = "exitGuard"
  /\ inputTask' = IF renderingMutex = "deleted" /\ faults THEN "fault" ELSE "exitReset"
  /\ UNCHANGED <<updateRequired, renderingMutex, navigationVars, subScreen, buttons,
                 displayTask, displayed, progress, historyVars>>
  /\ UNCHANGED <<layoutVars, probe>>

\* onExit: `section.reset(); epub.reset()`.
ExitReset ==
  /\ inputTask = "exitReset"
  /\ section' = NoSection
  /\ inputTask' = "exited"
  /\ UNCHANGED <<updateRequired, renderingMutex, currentSpineIndex, nextPageNumber, subScreen,
                 buttons, displayTask, displayed, progress, historyVars>>
  /\ UNCHANGED <<layoutVars, probe>>

\* A step of the display task.
DisplayTaskStep ==
  \/ DisplayPoll
  \/ DisplayClear
  \/ DisplayTake
  \/ RenderBegin
  \/ \E found \in BOOLEAN : RenderLoadCache(found)
  \/ RenderIndexPage
  \/ RenderIndexDone
  \/ RenderIndexFail
  \/ RenderSetPage
  \/ \E loaded \in BOOLEAN : RenderPage(loaded)
  \/ RenderSaveProgress
  \/ \E panel \in Panels \cup {FaultPanel} : RenderUseAfterReset(panel)
  \/ RenderThrow
  \/ DisplayRelease

\* A step of a handleInput, callback or onExit already under way.
InputTaskStep ==
  \/ TakeRenderingMutex
  \/ ConfirmOpen
  \/ HandleBack
  \/ HandleNoRelease
  \/ HandleEndOfBook
  \/ HandleSkipChapter
  \/ SkipChapterLocked
  \/ HandleNoSection
  \/ HandlePrev
  \/ HandleNext
  \/ PrevChapterLocked
  \/ NextChapterLocked
  \/ SetUpdateRequired
  \/ SubScreenExit
  \/ ExitScreen
  \/ \E faults \in BOOLEAN : ExitGuardGive(faults)
  \/ ExitReset

NextScreen ==
  \/ OnEnter
  \/ \E ev \in ButtonEvents : HandleInputBegin(ev)
  \/ \E newSpineIndex \in 0..(SpineCount - 1) : SubScreenSelect(newSpineIndex)
  \/ SubScreenGoBack
  \/ InputTaskStep
  \/ DisplayTaskStep

SpecScreen == InitScreen /\ [][NextScreen]_vars

\* The display task keeps being scheduled, and a handler that has started runs
\* on: both tasks take their next step whenever one is possible.
FairSpecScreen ==
  InitScreen /\ [][NextScreen]_vars /\ WF_vars(DisplayTaskStep) /\ WF_vars(InputTaskStep)

\* ------------------------------------------------------------------------
\* Properties of layoutAndExtractLines
\* ------------------------------------------------------------------------
\* A call of layoutAndExtractLines on a non-empty queue has returned.
Returned == pc = "idle" /\ calls > 0 /\ laidOut # <<>>

\* Rendered width of words: their measured widths plus spaceWidth per gap.
renderedWidth(ws) ==
  SumSeq([k \in 1..Len(ws) |-> getTextWidth(ws[k])])
  + (IF Len(ws) > 0 THEN (Len(ws) - 1) * spaceWidth ELSE 0)

AllWordsFit == \A i \in 1..Len(wordWidths) : wordWidths[i] <= pageWidth

\* C1: when every word measures no more than the page width after the
\* pre-split, no emitted line is wider than the page, hyphenation enabled or
\* not.
C1_LinesFitPage ==
  (Returned /\ AllWordsFit) =>
    \A b \in 1..Len(emitted) : renderedWidth(emitted[b].words) <= pageWidth

C1_Witness ==
  /\ Returned
  /\ AllWordsFit
  /\ hyphenationEnabled
  /\ \E k \in 1..Len(splitLog) : splitLog[k].phase = "hyphenate"
  /\ Len(emitted) >= 2
  /\ \E b \in 1..Len(emitted) : Len(emitted[b].words) >= 2

\* C2: every line delivered to processLine has at least one word, parallel
\* sequences of equal length and no empty word.
C2_LinesWellFormed ==
  \A b \in 1..Len(emitted) :
    /\ Len(emitted[b].words) >= 1
    /\ Len(emitted[b].wordXpos) = Len(emitted[b].words)
    /\ Len(emitted[b].wordStyles) = Len(emitted[b].words)
    /\ \A k \in 1..Len(emitted[b].words) : emitted[b].words[k] # <<>>

\* C3: the emitted words in callback order followed by the words left in the
\* queue are the queue after splitting; with includeLastLine and fewer than
\* MAX_LINES lines needed the queue ends empty.
C3_OrderAndDrain ==
  Returned =>
    /\ Flatten([b \in 1..Len(emitted) |-> emitted[b].words]) \o words = laidOut
    /\ (includeLastLine /\ Len(laidOut) < MAX_LINES) => words = <<>>

\* The bytes of a word other than '-'.
lettersOf(word) == Cardinality({ k \in 1..Len(word) : word[k] # 45 })

phaseRank ==
  IF pc = "widths" THEN 4
  ELSE IF pc = "dp" THEN 3
  ELSE IF pc = "hyphenate" THEN 2
  ELSE IF pc = "extract" THEN 1
  ELSE 0

\* A natural number that bounds the steps a call has left: a split lowers the
\* sum of squares, an advance of the pre-split loop the words left to
\* measure, every other step the phase.
Rank ==
  SumSeq([i \in 1..Len(words) |-> lettersOf(words[i]) * lettersOf(words[i])]) * 1000
  + (Len(words) - wordsIt) * 10
  + phaseRank

\* The call in progress has a step to take: the pre-split loop is at a word
\* of the queue and is not repeating an iteration for ever (the other phases
\* are single steps with no condition).
CallCanStep == (pc = "widths" => wordsIt < Len(words)) /\ pc # "looping"

\* C4: with hyphenation enabled every call of layoutAndExtractLines returns
\* after finitely many splits: the call always has a step to take and every
\* step lowers Rank, so a call started with rank r returns within r steps.
C4_Terminates ==
  /\ [](hyphenationEnabled => CallCanStep)
  /\ [][(hyphenationEnabled /\ pc # "idle") => Rank' < Rank]_vars

C4_Witness ==
  /\ Returned
  /\ hyphenationEnabled
  /\ \E k \in 1..Len(splitLog) : splitLog[k].phase = "widths"
  /\ \E k \in 1..Len(splitLog) : splitLog[k].phase = "hyphenate"

\* C5: a word wider than the page that cannot be split is emitted alone on
\* its line, the words around it are emitted too, and no line is empty.
C5_OversizedAlone ==
  (Returned /\ includeLastLine /\ ~AllWordsFit) =>
    /\ words = <<>>
    /\ Flatten([b \in 1..Len(emitted) |-> emitted[b].words]) = laidOut
    /\ \A b \in 1..Len(emitted) :
         /\ emitted[b].words # <<>>
         /\ (\E k \in 1..Len(emitted[b].words) :
               getTextWidth(emitted[b].words[k]) > pageWidth)
            => Len(emitted[b].words) = 1

\* The pre-split pass of calculateWordWidths has just finished.
PreSplitDone == pc = "dp" /\ guards = <<>>

C9_OneTrailingHyphen ==
  \A k \in 1..Len(splitLog) :
    /\ Len(splitLog[k].prefix) >= 2
    /\ splitLog[k].prefix[Len(splitLog[k].prefix)] = 45
    /\ splitLog[k].prefix[Len(splitLog[k].prefix) - 1] # 45

\* ------------------------------------------------------------------------
\* Properties of the splitting functions
\* ------------------------------------------------------------------------
\* The line breaks (cumulative word counts, the last one n) of the partition
\* that cuts after the words of cuts.
breaksOf(cuts, n) == SetToSortedSeq(cuts \cup {n})

\* Rendered width of line l of a partition: its words and the gaps between.
lineWidthOf(widths, breaks, l) ==
  widthSum(widths, IF l = 1 THEN 0 ELSE breaks[l - 1], breaks[l])
  + (breaks[l] - (IF l = 1 THEN 0 ELSE breaks[l - 1]) - 1) * ProbeSpaceWidth

feasibleBreaks(widths, breaks, page) ==
  \A l \in 1..Len(breaks) : lineWidthOf(widths, breaks, l) <= page

squaredSlack(widths, breaks, page) ==
  SumSeq([l \in 1..(Len(breaks) - 1) |->
            (page - lineWidthOf(widths, breaks, l)) * (page - lineWidthOf(widths, breaks, l))])

FeasiblePartitions(widths, page) ==
  { breaksOf(cuts, Len(widths)) :
      cuts \in { c \in SUBSET (1..(Len(widths) - 1)) :
                   feasibleBreaks(widths, breaksOf(c, Len(widths)), page) } }

\* C6: with hyphenation disabled the partition chosen by computeLineBreaks is
\* one into lines that fit the page, and among those it has the least sum of
\* squared slack over all lines but the last.
C6_DpMinimisesSlack ==
  (probe.kind = "lineBreaks" /\ FeasiblePartitions(probe.wordWidths, probe.pageWidth) # {}) =>
    /\ probe.lineBreakIndices \in FeasiblePartitions(probe.wordWidths, probe.pageWidth)
    /\ \A p \in FeasiblePartitions(probe.wordWidths, probe.pageWidth) :
         squaredSlack(probe.wordWidths, probe.lineBreakIndices, probe.pageWidth)
           <= squaredSlack(probe.wordWidths, p, probe.pageWidth)

C6_Witness ==
  /\ probe.kind = "lineBreaks"
  /\ Len(probe.lineBreakIndices) >= 3
  /\ probe.lineBreakIndices \in FeasiblePartitions(probe.wordWidths, probe.pageWidth)
  /\ \E p \in FeasiblePartitions(probe.wordWidths, probe.pageWidth) :
       /\ Len(p) = Len(probe.lineBreakIndices)
       /\ squaredSlack(probe.wordWidths, p, probe.pageWidth)
            > squaredSlack(probe.wordWidths, probe.lineBreakIndices, probe.pageWidth)

\* C8: every successful split, by splitWord or by ParsedText at a breakOffsets
\* offset, recombines: the head without its final '-' followed by the tail is
\* the word, byte for byte.
C8_Recombines ==
  (probe.kind \in {"splitWord", "parsedTextSplit"} /\ probe.ok) =>
    /\ probe.head # <<>>
    /\ probe.head[Len(probe.head)] = 45
    /\ SubSeq(probe.head, 1, Len(probe.head) - 1) \o probe.tail = probe.word

C8_Witness ==
  /\ probe.kind = "splitWord"
  /\ probe.ok
  /\ \E k \in 1..Len(probe.word) : probe.word[k] > 127
  /\ Len(probe.tail) >= 2

\* The byte offsets right after a literal hyphen standing between two letters.
offsetsAfterHyphens(word) ==
  LET cps == collectCodepoints(word)
  IN { cps[i + 1].byteOffset : i \in { i \in 2..(Len(cps) - 1) :
         /\ isExplicitHyphen(cps[i].value)
         /\ isAlphabetic(cps[i - 1].value)
         /\ isAlphabetic(cps[i + 1].value) } }

fittingOffsets(word, availableWidth, includeFallback) ==
  { o \in Range(breakOffsets(word, includeFallback)) :
      getTextWidth(SubstrTo(word, o)) + getTextWidth(<<45>>) <= availableWidth }

\* C11: chooseSplitForWidth returns false exactly when no candidate prefix
\* fits with its hyphen; otherwise it returns the largest candidate offset
\* whose prefix fits, and as prefixWidth that prefix's width plus the hyphen's,
\* which is at most availableWidth.
C11_WidestFittingPrefix ==
  probe.kind = "parsedTextSplit" =>
    IF fittingOffsets(probe.word, probe.availableWidth, probe.includeFallback) = {}
    THEN ~probe.ok
    ELSE /\ probe.ok
         /\ probe.byteOffset
              \in fittingOffsets(probe.word, probe.availableWidth, probe.includeFallback)
         /\ \A o \in fittingOffsets(probe.word, probe.availableWidth, probe.includeFallback) :
              o <= probe.byteOffset
         /\ probe.prefixWidth
              = getTextWidth(SubstrTo(probe.word, probe.byteOffset)) + getTextWidth(<<45>>)
         /\ probe.prefixWidth <= probe.availableWidth

\* A split chosen among several fitting candidates, in a multi-byte word.
C11_Witness ==
  /\ probe.kind = "parsedTextSplit"
  /\ probe.ok
  /\ Cardinality(fittingOffsets(probe.word, probe.availableWidth, probe.includeFallback)) >= 2
  /\ \E k \in 1..Len(probe.word) : probe.word[k] > 127

\* The word has fewer codepoints than a prefix and a suffix need, surrounding
\* punctuation not counted.
tooShort(word) ==
  Len(trimSurroundingPunctuation(collectCodepoints(word))) < MIN_PREFIX_CP + MIN_SUFFIX_CP

\* C12: a word with fewer than MIN_PREFIX_CP + MIN_SUFFIX_CP codepoints after
\* trimming gets no break offset and is not split by ParsedText, with or
\* without includeFallback; the legacy splitWord, which counts the codepoints
\* untrimmed against its own minimum, does not split below that minimum
\* either, forced or not.
C12_ShortWordsNeverSplit ==
  /\ (probe.kind = "breakOffsets" /\ tooShort(probe.word)) => probe.offsets = <<>>
  /\ (probe.kind = "parsedTextSplit" /\ tooShort(probe.word)) => ~probe.ok
  /\ (probe.kind = "splitWord"
        /\ Len(collectCodepoints(probe.word)) < LEGACY_MIN_PREFIX_CP + MIN_SUFFIX_CP)
       => ~probe.ok

\* A Cyrillic word of three letters behind a bracket, asked with fallback.
C12_Witness ==
  /\ probe.kind = "breakOffsets"
  /\ probe.includeFallback
  /\ tooShort(probe.word)
  /\ Len(collectCodepoints(probe.word)) >= MIN_PREFIX_CP + MIN_SUFFIX_CP
  /\ Len(trimSurroundingPunctuation(collectCodepoints(probe.word))) = 3
  /\ \E k \in 1..Len(probe.word) : probe.word[k] > 127
  /\ probe.offsets = <<>>

\* The first line of the probe is a Justified line of at least two words that
\* is not the last of its paragraph.
JustifiedInnerLine ==
  /\ probe.kind = "line"
  /\ probe.block.style = "JUSTIFIED"
  /\ Len(probe.lineBreakIndices) >= 2
  /\ Len(probe.block.words) >= 2

\* The gap extractLine leaves after word k of the line.
gapAfter(k) ==
  probe.block.wordXpos[k + 1] - probe.block.wordXpos[k] - probe.wordWidths[k]

\* C13: on a Justified non-final line of at least two words the gaps sum to
\* spareSpace, so the last word ends on the page width, and the remainder of
\* the division goes to the leading gaps (no gap is smaller than a later one,
\* none exceeds another by more than a pixel).
C13_JustifiedFillsPage ==
  JustifiedInnerLine =>
    /\ SumSeq([k \in 1..(Len(probe.block.words) - 1) |-> gapAfter(k)])
         = probe.pageWidth - widthSum(probe.wordWidths, 0, Len(probe.block.words))
    /\ probe.block.wordXpos[Len(probe.block.words)]
         + probe.wordWidths[Len(probe.block.words)] = probe.pageWidth
    /\ \A j, k \in 1..(Len(probe.block.words) - 1) :
         j < k => gapAfter(j) - gapAfter(k) \in {0, 1}

\* breakOffsets was asked without fallback about a word of Latin letters only.
LatinRuleProbe ==
  /\ probe.kind = "breakOffsets"
  /\ ~probe.includeFallback
  /\ probe.word # <<>>
  /\ \A k \in 1..Len(probe.word) : isLatinLetter(probe.word[k])

\* C14: for a purely Latin word without fallback no candidate offset lies
\* between two adjacent vowels that form a tabulated English diphthong.
C14_DiphthongsStayTogether ==
  LatinRuleProbe =>
    \A k \in 1..Len(probe.offsets) :
      ~(/\ isLatinVowel(probe.word[probe.offsets[k]])
        /\ isLatinVowel(probe.word[probe.offsets[k] + 1])
        /\ isEnglishDiphthong(probe.word[probe.offsets[k]], probe.word[probe.offsets[k] + 1]))

\* The 0-based index of the last vowel before index b, or -1.
vowelBefore(word, b) ==
  LET vs == { i \in 0..(b - 1) : isLatinVowel(word[i + 1]) }
  IN IF vs = {} THEN 0 - 1 ELSE CHOOSE i \in vs : \A j \in vs : j <= i

\* The 0-based index of the first vowel at or after index b, or -1.
vowelFrom(word, b) ==
  LET vs == { i \in b..(Len(word) - 1) : isLatinVowel(word[i + 1]) }
  IN IF vs = {} THEN 0 - 1 ELSE CHOOSE i \in vs : \A j \in vs : i <= j

\* C15: for a purely Latin word without fallback, no candidate offset falls
\* inside the legal onset that precedes a vowel, and none falls right before
\* that vowel with the onset left in the head: the onset starts the tail.
C15_OnsetStartsTail ==
  LatinRuleProbe =>
    \A k \in 1..Len(probe.offsets) :
      LET b == probe.offsets[k]
          l == vowelBefore(probe.word, b)
          r == vowelFrom(probe.word, b)
          cps == collectCodepoints(probe.word)
      IN (l >= 0 /\ r >= 0 /\ r - l > 1)
           => /\ ~(r - englishOnsetLength(cps, l + 1, r) < b /\ b < r)
              /\ b # r

\* After trimming the word holds a codepoint that is no letter, and it has no
\* explicit hyphen between two letters.
hasNonAlphabetic(word) ==
  /\ \E i \in 1..Len(trimSurroundingPunctuation(collectCodepoints(word))) :
        ~isAlphabetic(trimSurroundingPunctuation(collectCodepoints(word))[i].value)
  /\ offsetsAfterHyphens(word) = {}

\* C16: without fallback (not forced) a word with a non-alphabetic codepoint
\* after trimming and no letter-flanked explicit hyphen gets no break offset
\* and is split neither by ParsedText nor by splitWord.
C16_NonAlphabeticNeverSplit ==
  /\ (probe.kind = "breakOffsets" /\ ~probe.includeFallback /\ hasNonAlphabetic(probe.word))
       => probe.offsets = <<>>
  /\ (probe.kind = "parsedTextSplit" /\ ~probe.includeFallback
        /\ hasNonAlphabetic(probe.word)) => ~probe.ok
  /\ (probe.kind = "splitWord" /\ ~probe.force /\ hasNonAlphabetic(probe.word)) => ~probe.ok

\* "test123" asked without fallback.
C16_Witness ==
  /\ probe.kind = "breakOffsets"
  /\ ~probe.includeFallback
  /\ hasNonAlphabetic(probe.word)
  /\ \E k \in 1..Len(probe.word) : probe.word[k] \in 48..57
  /\ \E k \in 1..Len(probe.word) : isLatinLetter(probe.word[k])
  /\ Len(probe.word) >= MIN_PREFIX_CP + MIN_SUFFIX_CP
  /\ probe.offsets = <<>>

\* Byte offset o of word is where a UTF-8 sequence starts.
startsCodepoint(word, o) == ~(word[o + 1] \in 128..191)

\* C17: every offset breakOffsets returns lies strictly inside the word on the
\* first byte of a codepoint, the offsets are strictly increasing, and a split
\* ParsedText makes has a head of more than the hyphen and a non-empty tail.
C17_OffsetsInsideWord ==
  /\ probe.kind = "breakOffsets" =>
       /\ \A k \in 1..Len(probe.offsets) :
            /\ probe.offsets[k] > 0
            /\ probe.offsets[k] < Len(probe.word)
            /\ startsCodepoint(probe.word, probe.offsets[k])
       /\ \A k \in 1..(Len(probe.offsets) - 1) : probe.offsets[k] < probe.offsets[k + 1]
  /\ (probe.kind = "parsedTextSplit" /\ probe.ok) =>
       /\ Len(probe.head) >= 2
       /\ probe.tail # <<>>

\* Offsets returned for a word with multi-byte letters behind a bracket.
C17_Witness ==
  /\ probe.kind = "breakOffsets"
  /\ probe.offsets # <<>>
  /\ probe.word[1] = 40
  /\ \E k \in 1..probe.offsets[1] : probe.word[k] > 127

\* ------------------------------------------------------------------------
\* The reader screen's two tasks
\* ------------------------------------------------------------------------
\* A step of the input task (every one of them moves inputTask).
inputTaskMoves == inputTask' # inputTask

\* The display task is inside a render pass.
renderPassRunning == renderingMutex = "display"

\* C18: the input task never resets the Section while a render pass is running
\* on the display task.
C18_NoResetDuringRenderPass ==
  [][(inputTaskMoves /\ section.exists /\ ~section'.exists) => ~renderPassRunning]_vars

\* C19: a handleInput step taken while a render pass is running leaves
\* currentSpineIndex, section and section->currentPage as they are.
C19_NavigationDeferredDuringPass ==
  [][(inputTaskMoves /\ renderPassRunning)
       => (currentSpineIndex' = currentSpineIndex /\ section' = section)]_vars

\* The panel shows what the latest request asked for, drawn by a pass that
\* took the lock after that request.
requestShown(n) ==
  /\ shownAfter = n
  /\ wanted = AnyPanel \/ displayed = wanted

\* C20: under FairSpecScreen every navigation request that set updateRequired
\* is followed by a render pass that starts after it and shows the position it
\* asked for, unless a later request replaced it, the screen was left or the SD
\* card failed.
C20_RequestsAreShown ==
  \A n \in 1..MaxRequests :
    (requests = n) ~> (\/ requests # n
                       \/ requestShown(n)
                       \/ displayTask = "deleted"
                       \/ sdFailed)

\* The display task is at a statement of renderScreen, or about to leave the
\* guard's scope.
insideRenderScreen ==
  displayTask \in {"begin", "loadCache", "index", "setPage", "page", "save", "release"}

\* The display task holds the lock exactly while it is inside a pass.
lockFollowsPass == [](renderPassRunning <=> (insideRenderScreen \/ displayTask = "fault"))

\* vTaskDelete(displayTaskHandle) never hits a task inside a pass.
deletedOutsidePass == [][displayTask' = "deleted" => ~renderPassRunning]_vars

\* Every pass ends with the lock released.
passCompletes == renderPassRunning ~> ~renderPassRunning

\* C21: a render pass that has started runs to completion and releases the
\* rendering lock on every exit path, and the display task is not deleted
\* while inside a pass.
C21_PassRunsToCompletion == lockFollowsPass /\ deletedOutsidePass /\ passCompletes

\* A step of onExit's scope guard: xSemaphoreGive on the handle it copied.
guardGives == inputTask = "exitGuard" /\ inputTask' # inputTask

\* C29: onExit performs no take or give on the rendering mutex once
\* vSemaphoreDelete has run.
C29_NoUseAfterDelete == [][guardGives => renderingMutex # "deleted"]_vars

\* C30: after `previous` at page 0 of spine item 0, the render pass that
\* follows leaves the reader at page 0 of item 0.
C30_FirstPageStays ==
  (firstPagePrev /\ displayTask = "release" /\ section.exists /\ ~sdFailed)
    => (currentSpineIndex = 0 /\ section.currentPage = 0)

\* breakOffsets was asked without fallback about a word of Cyrillic letters only.
CyrillicRuleProbe ==
  /\ probe.kind = "breakOffsets"
  /\ ~probe.includeFallback
  /\ probe.word # <<>>
  /\ \A info \in Range(collectCodepoints(probe.word)) : isCyrillicLetter(info.value)

\* C24: for a purely Cyrillic word without fallback, neither the letter before
\* nor the letter after a candidate break is a soft or hard sign (every
\* Cyrillic letter takes two bytes, so offset o stands before letter o / 2).
C24_NoBreakBesideSigns ==
  CyrillicRuleProbe =>
    \A k \in 1..Len(probe.offsets) :
      LET cps == collectCodepoints(probe.word)
          index == probe.offsets[k] \div 2
      IN /\ ~isSoftOrHardSign(CpAt(cps, index - 1))
         /\ ~isSoftOrHardSign(CpAt(cps, index))

\* ------------------------------------------------------------------------
\* The frame of a split
\* ------------------------------------------------------------------------
\* The queue `after` is the queue `before` with the word at 1-based position i
\* cut in two: a prefix ending in '-' in its place, the rest of the word right
\* behind it, every other word where it was.
splitsWordAt(before, after, i) ==
  /\ Len(after) = Len(before) + 1
  /\ Len(after[i]) >= 2
  /\ after[i][Len(after[i])] = 45
  /\ after[i + 1] # <<>>
  /\ SubSeq(after[i], 1, Len(after[i]) - 1) \o after[i + 1] = before[i]
  /\ SubSeq(after, 1, i - 1) = SubSeq(before, 1, i - 1)
  /\ SubSeq(after, i + 2, Len(after)) = SubSeq(before, i + 1, Len(before))

\* The style queue `after` is `before` with the style at position i repeated
\* behind it.
repeatsStyleAt(before, after, i) ==
  after = SubSeq(before, 1, i) \o <<before[i]>> \o SubSeq(before, i + 1, Len(before))

\* A step of either splitting pass.
splittingPassStep == pc \in {"widths", "hyphenate"}

\* A splitting pass changes the queue by one split or not at all.
splitTouchesOneWord ==
  [][splittingPassStep =>
       \/ words' = words /\ wordStyles' = wordStyles
       \/ \E i \in 1..Len(words) : /\ splitsWordAt(words, words', i)
                                   /\ repeatsStyleAt(wordStyles, wordStyles', i)]_vars

\* Between the pre-split pass and the extraction of the lines the three
\* vectors are parallel, each width the measured width of its word.
widthsFollowWords ==
  [](pc \in {"dp", "hyphenate", "extract"} =>
       /\ Len(wordStyles) = Len(words)
       /\ Len(wordWidths) = Len(words)
       /\ \A i \in 1..Len(words) : wordWidths[i] = U16(getTextWidth(words[i])))

\* C25: a split of either pass replaces the split word by its hyphen-terminated
\* prefix, puts the tail right behind it with the same style, leaves every
\* other word and style in place, and keeps words, wordStyles and wordWidths
\* parallel with wordWidths[i] the width of words[i].
C25_SplitFrame == splitTouchesOneWord /\ widthsFollowWords

C25_Witness ==
  /\ pc = "extract"
  /\ Len(wordStyles) = Len(words)
  /\ \E j, k \in 1..Len(splitLog) :
       /\ splitLog[j].phase = "widths"
       /\ splitLog[k].phase = "hyphenate"
       /\ splitLog[k].index + 2 <= Len(words)
       /\ \E a, b \in 1..Len(wordStyles) : wordStyles[a] # wordStyles[b]

\* ------------------------------------------------------------------------
\* The packing policy with hyphenation enabled
\* ------------------------------------------------------------------------
\* Line b (0-based) of a layout, given as the 0-based exclusive ends of its
\* lines, could not have taken the first word of the next line as well.
lineIsFull(widthsQ, breaks, page, space, b) ==
  LET from == IF b > 0 THEN breaks[b] ELSE 0
      to == breaks[b + 1]
  IN widthSum(widthsQ, from, to) + (to - from - 1) * space + space + widthsQ[to + 1]
       > page

\* C26: with hyphenation enabled every line holds as many consecutive words
\* as fit: the first word of the next line, with the space before it, would
\* not have fitted behind the line's last word.
C26_GreedyPacking ==
  probe.kind = "hyphenatedLineBreaks" =>
    \A b \in 0..(Len(probe.lineBreakIndices) - 2) :
      lineIsFull(probe.wordWidths, probe.lineBreakIndices, probe.pageWidth, ProbeSpaceWidth, b)

\* ------------------------------------------------------------------------
\* Hyphenation splits in the final layout
\* ------------------------------------------------------------------------
\* The word at 0-based position index of the probed layout is the last one
\* of its line.
endsItsLine(index) ==
  \E l \in 1..Len(probe.lineBreakIndices) : probe.lineBreakIndices[l] = index + 1

\* C27: in the layout computeLineBreaks returns, the prefix of every split the
\* hyphenation pass made is the last word of its line, so that its
\* continuation starts the next line, also when the tail was split again.
C27_PrefixEndsLine ==
  probe.kind = "hyphenatedLineBreaks" =>
    \A g \in 1..Len(probe.guards) : endsItsLine(probe.guards[g].prefixIndex)

\* ------------------------------------------------------------------------
\* The paragraph indent over several calls
\* ------------------------------------------------------------------------
\* A call of layoutAndExtractLines other than the first enters
\* calculateWordWidths.
laterCallStarts == calls >= 1 /\ calls' = calls + 1

\* C28: the em-space indent is prepended by the first call only: a later call
\* on the same ParsedText takes the queue as the earlier call left it, and
\* does not indent the word at its front.
C28_IndentOnce == [][laterCallStarts => words' = words]_vars

\* ------------------------------------------------------------------------
\* Properties of the section cache
\* ------------------------------------------------------------------------
\* loadCacheMetadata has read a section.bin written under another version or
\* for other layout parameters.
StaleCacheRead ==
  /\ probe.kind = "loadCacheMetadata"
  /\ probe.stored.hasSectionFile
  /\ \/ probe.stored.version # SECTION_FILE_VERSION
     \/ probe.stored.parameters # probe.requested

C23_RoundTrip ==
  probe.kind = "roundTrip" =>
    /\ probe.restored = probe.block
    /\ probe.consumed = probe.written

C23_Witness ==
  /\ probe.kind = "roundTrip"
  /\ probe.restored = probe.block
  /\ \E k \in 1..Len(probe.block.words) : probe.block.words[k] = <<97, 0>>
  /\ \E k \in 1..Len(probe.block.words) : probe.block.words[k] = <<208, 191>>
  /\ \E k \in 1..Len(probe.block.wordXpos) : probe.block.wordXpos[k] > 255
  /\ probe.block.style # 0


====
